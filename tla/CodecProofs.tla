------------------------------ MODULE CodecProofs ------------------------------
(* What the codecs guarantee for integers of any width and bounds of any size. *)
EXTENDS Codec, WellFoundedInduction, TLAPS

-----------------------------------------------------------------------------
(* Loops.  The reader and the writer go over lists with functions that are  *)
(* defined recursively on 0 .. n.                                           *)

\* Induction on a position: a set of positions that has the first, and with
\* every position the next, has them all.
LEMMA UpTo ==
  ASSUME NEW n \in Nat, NEW I, 0 \in I,
         \A i \in 1 .. n : i - 1 \in I => i \in I
  PROVE  \A i \in 0 .. n : i \in I
<1> DEFINE J == {i \in Nat : i <= n /\ i \notin I}
<1> SUFFICES ASSUME J # {} PROVE FALSE
  OBVIOUS
<1>1. J \subseteq Nat
  OBVIOUS
<1>2. PICK k \in J : \A m \in J : ~(<<m, k>> \in OpToRel(<, Nat))
  <2> HIDE DEF J
  <2> QED BY <1>1, NatLessThanWellFounded, WFMin, Zenon
<1>3. k \in Nat /\ k <= n /\ k # 0
  BY <1>2
<1>4. k - 1 \in Nat /\ k - 1 < k /\ k \in 1 .. n
  BY <1>3
<1>5. k - 1 \notin J
  BY <1>2, <1>4 DEF OpToRel
<1>6. k - 1 \in I
  BY <1>3, <1>4, <1>5
<1> QED
  BY <1>2, <1>4, <1>6

\* A function defined by a loop exists: F is what an iteration does.
Iterations(n, S) == [(1 .. n) \X S -> S]

Runs(g, n, S, c, F) ==
  g \in [0 .. n -> S] /\ g[0] = c /\ \A i \in 1 .. n : g[i] = F[<<i, g[i - 1]>>]

LEMMA LoopExists ==
  ASSUME NEW S, NEW n \in Nat, NEW c \in S, NEW F \in Iterations(n, S)
  PROVE  \E g : Runs(g, n, S, c, F)
<1> USE DEF Iterations
<1> DEFINE Good(g, m) == g[0] = c /\ \A i \in 1 .. m : g[i] = F[<<i, g[i - 1]>>]
           I == {m \in 0 .. n : \E g \in [0 .. m -> S] : Good(g, m)}
<1>1. 0 \in I
  <2> DEFINE g == [i \in 0 .. 0 |-> c]
  <2>1. g \in [0 .. 0 -> S] /\ Good(g, 0)
    OBVIOUS
  <2>2. 0 \in 0 .. n
    OBVIOUS
  <2> HIDE DEF g, Good
  <2> QED
    BY <2>1, <2>2
<1>2. ASSUME NEW m \in 1 .. n, m - 1 \in I
      PROVE  m \in I
  <2>1. PICK g \in [0 .. m - 1 -> S] : Good(g, m - 1)
    BY <1>2
  <2> DEFINE w == F[<<m, g[m - 1]>>]
             h == [i \in 0 .. m |-> IF i = m THEN w ELSE g[i]]
  <2>2. m - 1 \in 0 .. m - 1 /\ g[m - 1] \in S
    OBVIOUS
  <2>3. w \in S
    BY <2>2
  <2> HIDE DEF w
  <2>4. h \in [0 .. m -> S]
    BY <2>3
  <2>5. h[0] = c
    BY <2>1
  <2>6. ASSUME NEW i \in 1 .. m PROVE h[i] = F[<<i, h[i - 1]>>]
    <3>1. h[i - 1] = g[i - 1]
      OBVIOUS
    <3>2. CASE i = m
      <4>1. h[m] = w
        OBVIOUS
      <4> QED BY <3>1, <3>2, <4>1 DEF w
    <3>3. CASE i # m
      <4>1. i \in 1 .. m - 1
        BY <3>3
      <4>2. g[i] = F[<<i, g[i - 1]>>]
        BY <2>1, <4>1
      <4>3. h[i] = g[i]
        BY <3>3
      <4> QED BY <3>1, <4>2, <4>3
    <3> QED BY <3>2, <3>3
  <2>7. Good(h, m) /\ m \in 0 .. n
    <3> HIDE DEF h
    <3> QED BY <2>5, <2>6
  <2> HIDE DEF h, Good
  <2> QED
    BY <2>4, <2>7
<1>3. \A i \in 0 .. n : i \in I
  <2> HIDE DEF I
  <2> QED BY <1>1, <1>2, UpTo
<1>4. \E g \in [0 .. n -> S] : Good(g, n)
  BY <1>3
<1> QED
  BY <1>4 DEF Runs

-----------------------------------------------------------------------------
(* Types *)

\* The names of the fields of all structures.
FieldNames ==
  {"workload_type", "admission_request_id", "request_id", "attempt_id", "tenant_id",
   "model_id", "model_revision", "adapter_id", "policy_generation", "input_tokens",
   "expected_output_tokens", "max_output_tokens", "batchable", "priority", "latency_class",
   "deadline", "requested_slo", "expected_demand", "preemption", "degradation_permitted",
   "requires_reservation", "admission_ttl", "backend", "dtype", "quantization",
   "workload_class", "policy_tags", "generation", "timestamp", "agent_id", "boot_id",
   "node_name", "device_index", "device_name", "total", "used", "reserved", "reclaimable",
   "capabilities", "healthy", "model_residency_hints", "transfer_path_hints", "pressure",
   "provenance", "id", "owner", "demand", "created_at", "expires_at",
   "admission_generation", "status", "name", "safety_headroom_ratio",
   "absolute_safety_margin", "overcommit", "overcommit_allowance",
   "overcommit_confidence_min", "min_predictor_confidence", "max_snapshot_age",
   "accept_stale_snapshot", "quota_fail_closed", "admit_slo_feasible_with_risk",
   "require_reservation", "max_reservation_lifetime", "default_admission_ttl",
   "max_deferrals", "defer_min_backoff", "defer_max_wait", "small_request_priority_boost",
   "large_request_starvation_boost", "fairness_window", "key", "o.safety_headroom_ratio",
   "o.overcommit_mode", "o.overcommit_allowance", "o.min_predictor_confidence",
   "o.admit_slo_risk", "o.require_reservation", "o.small_request_boost", "present",
   "source_authority", "stale", "limits", "token_budget", "max_concurrent_requests",
   "max_sequences", "compute_time_allowance", "peak_vram", "host_memory", "pinned_memory",
   "kv_growth", "transfer_bytes", "execution_duration", "output_tokens", "completed_at",
   "kind", "outcome", "reason", "snapshot_generation", "epoch", "confidence",
   "decision_time", "reservation_id", "predicted_requirement", "explanation", "revision",
   "fixed_base_memory", "per_token_kv_bytes", "per_token_tensor_bytes",
   "per_request_overhead", "workspace_bytes", "staging_bytes", "pinned_staging_bytes",
   "safety_margin_ratio", "fragmentation_ratio", "prefill_tokens_per_sec",
   "decode_tokens_per_sec", "transfer_bytes_per_sequence", "transfer_bytes_per_sec",
   "host_memory_bytes", "pinned_host_memory_bytes", "execution_slots_required",
   "sequence_slots_required", "agent", "boot", "caps", "inventory", "code", "msg",
   "error_code", "overrides"}

Cell == [name : FieldNames, value : Nat]

Readers(n) ==
  [pos : 0 .. n, failed : BOOLEAN, refused : BOOLEAN, misread : BOOLEAN, number : Nat]

PlainKinds == {"number", "enum", "string", "strings", "optional"}

PlainField ==
  {f \in [kind : PlainKinds, width : Nat, name : FieldNames] : f.kind = "enum" => f.width = 1}

OverridesField == [kind : {"overrides"}, width : {0}, name : FieldNames, of : Seq(PlainField)]

Item == PlainField \cup OverridesField

LEMMA FieldParts ==
  ASSUME NEW f \in PlainField
  PROVE  f.kind \in PlainKinds /\ f.width \in Nat /\ f.name \in FieldNames
         /\ (f.kind = "enum" => f.width = 1)
BY DEF PlainField

LEMMA ReaderParts ==
  ASSUME NEW n \in Nat, NEW r \in Readers(n)
  PROVE  /\ r.pos \in Nat /\ r.pos <= n /\ r.failed \in BOOLEAN /\ r.refused \in BOOLEAN
         /\ r.misread \in BOOLEAN /\ r.number \in Nat
BY DEF Readers

-----------------------------------------------------------------------------
(* The reader stays in the buffer, and where it is once it has failed. *)

LEMMA FailType ==
  ASSUME NEW n \in Nat, NEW r \in Readers(n)
  PROVE  Fail(r) \in Readers(n) /\ Fail(r).failed /\ Fail(r).pos = r.pos /\ Fail(r).number = 0
BY DEF Readers, Fail

LEMMA FailTwice ==
  ASSUME NEW n \in Nat, NEW r \in Readers(n)
  PROVE  Fail(Fail(r)) = Fail(r)
BY DEF Readers, Fail

LEMMA NumberOfType ==
  ASSUME NEW bytes \in Seq(Cell), NEW from \in Nat, NEW n \in Nat, from + n <= Len(bytes)
  PROVE  NumberOf(bytes, from, n) \in Nat
<1>1. kMaxLen + kMaxCount + kMaxOverrides + 1 \in Nat
  BY CodecAssumption
<1>2. n # 0 => bytes[from + 1].value \in Nat
  <2> SUFFICES ASSUME n # 0 PROVE bytes[from + 1].value \in Nat
    OBVIOUS
  <2>1. from + 1 \in 1 .. Len(bytes)
    OBVIOUS
  <2>2. bytes[from + 1] \in Cell
    BY <2>1
  <2> QED BY <2>2 DEF Cell
<1> QED
  BY <1>1, <1>2 DEF NumberOf

LEMMA AdvanceType ==
  ASSUME NEW m \in Nat, NEW bytes, NEW name, NEW r \in Readers(m), NEW n \in Nat, r.pos + n <= m
  PROVE  LET s == Advance(r, bytes, name, n)
         IN /\ s \in Readers(m) /\ s.pos = r.pos + n /\ s.failed = r.failed
            /\ s.refused = r.refused /\ s.number = r.number
<1> DEFINE b == r.misread \/ \E i \in r.pos + 1 .. r.pos + n :
                                i \in DOMAIN bytes /\ bytes[i].name # name
           p == r.pos + n
           s == Advance(r, bytes, name, n)
<1>1. b \in BOOLEAN
  OBVIOUS
<1>2. s = [r EXCEPT !.pos = p, !.misread = b]
  BY DEF Advance
<1>3. p \in 0 .. m
  BY DEF Readers
<1> HIDE DEF b, p, s
<1>4. /\ s \in Readers(m) /\ s.pos = p /\ s.failed = r.failed
      /\ s.refused = r.refused /\ s.number = r.number
  BY <1>1, <1>2, <1>3 DEF Readers
<1> QED
  BY <1>4 DEF p, s

\* The bytes that an integer of this width finds.
Taken(r, bytes, width) ==
  IF width <= Len(bytes) - r.pos THEN width ELSE Len(bytes) - r.pos

LEMMA TakenRange ==
  ASSUME NEW bytes \in Seq(Cell), NEW width \in Nat, NEW r \in Readers(Len(bytes))
  PROVE  /\ Taken(r, bytes, width) \in Nat /\ r.pos + Taken(r, bytes, width) <= Len(bytes)
         /\ Taken(r, bytes, width) <= width
         /\ (Taken(r, bytes, width) < width) \in BOOLEAN
BY DEF Taken, Readers

Ended(t, b, v) == [t EXCEPT !.failed = b, !.number = v]

LEMMA Outcome ==
  ASSUME NEW m \in Nat, NEW t \in Readers(m), NEW b \in BOOLEAN, NEW v \in Nat,
         NEW s, s = Ended(t, b, v)
  PROVE  /\ s \in Readers(m) /\ s.failed = b /\ s.number = v /\ s.pos = t.pos
         /\ s.refused = t.refused /\ s.misread = t.misread
BY DEF Readers, Ended

LEMMA NumberRead ==
  ASSUME NEW bytes \in Seq(Cell), NEW name, NEW width \in Nat,
         NEW r \in Readers(Len(bytes)), ~r.failed
  PROVE  LET s == ReadNumber(r, bytes, name, width)
             n == Taken(r, bytes, width)
         IN /\ s \in Readers(Len(bytes)) /\ s.pos = r.pos + n /\ s.failed = (n < width)
            /\ s.refused = r.refused /\ s.misread = Advance(r, bytes, name, n).misread
            /\ s.number = NumberOf(bytes, r.pos, n)
<1> DEFINE s == ReadNumber(r, bytes, name, width)
           n == Taken(r, bytes, width)
           t == Advance(r, bytes, name, n)
           v == NumberOf(bytes, r.pos, n)
           b == n < width
           m == Len(bytes)
<1>1. s = Ended(t, b, v)
  BY DEF ReadNumber, Taken, Ended
<1>2. n \in Nat /\ r.pos + n <= m /\ b \in BOOLEAN /\ m \in Nat
  BY TakenRange
<1>3. r.pos \in Nat
  BY <1>2, ReaderParts
<1> HIDE DEF n
<1>4. v \in Nat
  BY <1>2, <1>3, NumberOfType
<1>5. t \in Readers(m) /\ t.pos = r.pos + n /\ t.refused = r.refused
  BY <1>2, AdvanceType
<1> HIDE DEF s, t, v, b, m
<1>6. /\ s \in Readers(m) /\ s.failed = b /\ s.number = v /\ s.pos = t.pos
      /\ s.refused = t.refused /\ s.misread = t.misread
  BY <1>1, <1>2, <1>4, <1>5, Outcome
<1> QED
  BY <1>5, <1>6 DEF s, t, v, b, m, n

LEMMA NumberType ==
  ASSUME NEW bytes \in Seq(Cell), NEW name, NEW width \in Nat, NEW r \in Readers(Len(bytes))
  PROVE  ReadNumber(r, bytes, name, width) \in Readers(Len(bytes))
<1>1. CASE r.failed
  <2>1. Len(bytes) \in Nat
    OBVIOUS
  <2> QED BY <1>1, <2>1, FailType DEF ReadNumber
<1>2. CASE ~r.failed
  BY <1>2, NumberRead
<1> QED
  BY <1>1, <1>2

\* The length of a string is a number; what follows it must be there.
LEMMA StringType ==
  ASSUME NEW bytes \in Seq(Cell), NEW name, NEW r \in Readers(Len(bytes))
  PROVE  ReadString(r, bytes, name) \in Readers(Len(bytes))
<1> DEFINE m == Len(bytes)
           l == ReadNumber(r, bytes, name, Width32)
           s == IF l.failed \/ l.number > kMaxLen THEN Fail(l) ELSE Need(l, bytes, l.number)
<1>1. m \in Nat /\ Width32 \in Nat
  BY CodecAssumption
<1>2. l \in Readers(m)
  BY <1>1, NumberType
<1>3. ReadString(r, bytes, name) = IF s.failed THEN s ELSE Advance(s, bytes, name, l.number)
  BY DEF ReadString
<1> HIDE DEF l
<1>4. l.number \in Nat /\ l.pos \in Nat /\ l.pos <= m
  BY <1>1, <1>2, ReaderParts
<1>5. s = Fail(l) \/ (s = l /\ l.pos + l.number <= m)
  BY <1>4 DEF Need
<1> HIDE DEF s, m
<1>6. CASE s = Fail(l)
  BY <1>1, <1>2, <1>3, <1>6, FailType DEF m
<1>7. CASE s = l /\ l.pos + l.number <= m
  <2>1. Advance(s, bytes, name, l.number) \in Readers(m)
    BY <1>1, <1>2, <1>4, <1>7, AdvanceType
  <2> QED BY <1>2, <1>3, <1>7, <2>1 DEF m
<1> QED
  BY <1>5, <1>6, <1>7

\* The strings of a list: every iteration takes a reader to a reader.
LEMMA StringsLoop ==
  ASSUME NEW bytes \in Seq(Cell), NEW name, NEW c \in Readers(Len(bytes))
  PROVE  LET u == StringsUpto(c, bytes, name)
         IN /\ u[0] = c
            /\ \A i \in 1 .. c.number : u[i] = ReadString(u[i - 1], bytes, name)
            /\ \A i \in 0 .. c.number : u[i] \in Readers(Len(bytes))
<1> DEFINE S == Readers(Len(bytes))
           n == c.number
           F == [x \in (1 .. n) \X S |-> ReadString(x[2], bytes, name)]
           u == StringsUpto(c, bytes, name)
<1>1. n \in Nat /\ c \in S
  BY ReaderParts
<1>2. \A r \in S : ReadString(r, bytes, name) \in S
  BY StringType
<1>3. F \in Iterations(n, S)
  BY <1>2 DEF Iterations
<1>4. \A i \in 1 .. n : \A r \in S : F[<<i, r>>] = ReadString(r, bytes, name)
  OBVIOUS
<1> HIDE DEF F, S, n
<1>5. PICK g : Runs(g, n, S, c, F)
  BY <1>1, <1>3, LoopExists, Zenon
<1> USE DEF Runs
<1>6. g = [i \in 0 .. n |-> IF i = 0 THEN c ELSE ReadString(g[i - 1], bytes, name)]
  <2>1. ASSUME NEW i \in 0 .. n
        PROVE  g[i] = IF i = 0 THEN c ELSE ReadString(g[i - 1], bytes, name)
    <3>1. CASE i = 0
      BY <1>5, <3>1
    <3>2. CASE i # 0
      <4>1. i \in 1 .. n /\ i - 1 \in 0 .. n
        BY <1>1, <3>2
      <4>2. g[i - 1] \in S
        BY <1>5, <4>1
      <4> QED BY <1>4, <1>5, <3>2, <4>1, <4>2
    <3> QED BY <3>1, <3>2
  <2> QED BY <1>5, <2>1
<1>7. u = [i \in 0 .. n |-> IF i = 0 THEN c ELSE ReadString(u[i - 1], bytes, name)]
  BY <1>6, Zenon DEF StringsUpto, n
<1> HIDE DEF u
<1>8. u[0] = c /\ \A i \in 1 .. n : u[i] = ReadString(u[i - 1], bytes, name)
  BY <1>1, <1>7
<1>9. \A i \in 0 .. n : u[i] \in S
  <2> DEFINE I == {i \in 0 .. n : u[i] \in S}
  <2>1. 0 \in I
    BY <1>1, <1>8
  <2>2. \A i \in 1 .. n : i - 1 \in I => i \in I
    BY <1>1, <1>2, <1>8
  <2> HIDE DEF I
  <2>3. \A i \in 0 .. n : i \in I
    BY <1>1, <2>1, <2>2, UpTo
  <2> QED BY <2>3 DEF I
<1> QED
  BY <1>8, <1>9 DEF u, n, S

LEMMA StringsType ==
  ASSUME NEW bytes \in Seq(Cell), NEW name, NEW r \in Readers(Len(bytes))
  PROVE  ReadStrings(r, bytes, name) \in Readers(Len(bytes))
<1> DEFINE c == ReadNumber(r, bytes, name, Width32)
           m == Len(bytes)
<1>1. m \in Nat /\ Width32 \in Nat
  BY CodecAssumption
<1>2. c \in Readers(m)
  BY <1>1, NumberType
<1>3. Fail(c) \in Readers(m)
  BY <1>1, <1>2, FailType
<1>4. c.number \in 0 .. c.number
  BY <1>1, <1>2, ReaderParts
<1>5. StringsUpto(c, bytes, name)[c.number] \in Readers(m)
  <2> HIDE DEF c
  <2> QED BY <1>2, <1>4, StringsLoop
<1> QED
  BY <1>3, <1>5 DEF ReadStrings

LEMMA EnumType ==
  ASSUME NEW bytes \in Seq(Cell), NEW name, NEW r \in Readers(Len(bytes))
  PROVE  ReadEnum(r, bytes, name) \in Readers(Len(bytes))
<1> DEFINE e == ReadNumber(r, bytes, name, 1)
           b == e.refused \/ e.number > LastStatus
<1>1. e \in Readers(Len(bytes))
  BY NumberType
<1>2. ReadEnum(r, bytes, name) = [e EXCEPT !.refused = b]
  BY DEF ReadEnum, RefuseIf
<1>3. b \in BOOLEAN
  OBVIOUS
<1> HIDE DEF e, b
<1> QED
  BY <1>1, <1>2, <1>3 DEF Readers

\* A field that is not the overrides.
LEMMA FieldType ==
  ASSUME NEW bytes \in Seq(Cell), NEW f \in PlainField, NEW r \in Readers(Len(bytes))
  PROVE  ReadField(f, bytes, r) \in Readers(Len(bytes))
<1> DEFINE S == Readers(Len(bytes))
           flag == ReadNumber(r, bytes, f.name, 1)
<1>1. f.kind \in PlainKinds /\ f.width \in Nat
  BY FieldParts
<1>2. flag \in S
  BY NumberType
<1>3. ReadNumber(flag, bytes, f.name, f.width) \in S
  <2> HIDE DEF flag
  <2> QED BY <1>1, <1>2, NumberType
<1>4. CASE f.kind = "number"
  <2>1. ReadField(f, bytes, r) = ReadNumber(r, bytes, f.name, f.width)
    BY <1>4 DEF ReadField
  <2> QED BY <1>1, <2>1, NumberType
<1>5. CASE f.kind = "enum"
  <2>1. ReadField(f, bytes, r) = ReadEnum(r, bytes, f.name)
    BY <1>5 DEF ReadField
  <2> QED BY <2>1, EnumType
<1>6. CASE f.kind = "string"
  <2>1. ReadField(f, bytes, r) = ReadString(r, bytes, f.name)
    BY <1>6 DEF ReadField
  <2> QED BY <2>1, StringType
<1>7. CASE f.kind = "strings"
  <2>1. ReadField(f, bytes, r) = ReadStrings(r, bytes, f.name)
    BY <1>7 DEF ReadField
  <2> QED BY <2>1, StringsType
<1>8. CASE f.kind = "optional"
  <2>1. ReadField(f, bytes, r) =
          IF flag.number = 0 THEN flag ELSE ReadNumber(flag, bytes, f.name, f.width)
    BY <1>8 DEF ReadField
  <2> QED BY <1>2, <1>3, <2>1
<1> QED
  BY <1>1, <1>4, <1>5, <1>6, <1>7, <1>8 DEF PlainKinds

\* The fields of an override, one after the other.
LEMMA FieldsLoop ==
  ASSUME NEW bytes \in Seq(Cell), NEW fields \in Seq(PlainField), NEW c \in Readers(Len(bytes))
  PROVE  LET u == FieldsUpto(fields, bytes, c)
         IN /\ u[0] = c
            /\ \A i \in 1 .. Len(fields) : u[i] = ReadField(fields[i], bytes, u[i - 1])
            /\ \A i \in 0 .. Len(fields) : u[i] \in Readers(Len(bytes))
<1> DEFINE S == Readers(Len(bytes))
           n == Len(fields)
           F == [x \in (1 .. n) \X S |-> ReadField(fields[x[1]], bytes, x[2])]
           u == FieldsUpto(fields, bytes, c)
<1>1. n \in Nat /\ c \in S
  BY ReaderParts
<1>2. \A i \in 1 .. n : \A r \in S : ReadField(fields[i], bytes, r) \in S
  BY FieldType
<1>3. F \in Iterations(n, S)
  BY <1>2 DEF Iterations
<1>4. \A i \in 1 .. n : \A r \in S : F[<<i, r>>] = ReadField(fields[i], bytes, r)
  OBVIOUS
<1> HIDE DEF F, S, n
<1>5. PICK g : Runs(g, n, S, c, F)
  BY <1>1, <1>3, LoopExists, Zenon
<1> USE DEF Runs
<1>6. g = [i \in 0 .. n |-> IF i = 0 THEN c ELSE ReadField(fields[i], bytes, g[i - 1])]
  <2>1. ASSUME NEW i \in 0 .. n
        PROVE  g[i] = IF i = 0 THEN c ELSE ReadField(fields[i], bytes, g[i - 1])
    <3>1. CASE i = 0
      BY <1>5, <3>1
    <3>2. CASE i # 0
      <4>1. i \in 1 .. n /\ i - 1 \in 0 .. n
        BY <1>1, <3>2
      <4>2. g[i - 1] \in S
        BY <1>5, <4>1
      <4> QED BY <1>4, <1>5, <3>2, <4>1, <4>2
    <3> QED BY <3>1, <3>2
  <2> QED BY <1>5, <2>1
<1>7. u = [i \in 0 .. n |-> IF i = 0 THEN c ELSE ReadField(fields[i], bytes, u[i - 1])]
  BY <1>6, Zenon DEF FieldsUpto, n
<1> HIDE DEF u
<1>8. u[0] = c /\ \A i \in 1 .. n : u[i] = ReadField(fields[i], bytes, u[i - 1])
  BY <1>1, <1>7
<1>9. \A i \in 0 .. n : u[i] \in S
  <2> DEFINE I == {i \in 0 .. n : u[i] \in S}
  <2>1. 0 \in I
    BY <1>1, <1>8
  <2>2. ASSUME NEW i \in 1 .. n, i - 1 \in I
        PROVE  i \in I
    <3>1. u[i - 1] \in S
      BY <2>2
    <3>2. u[i] = ReadField(fields[i], bytes, u[i - 1])
      BY <1>8
    <3>3. u[i] \in S
      BY <1>2, <3>1, <3>2
    <3> QED BY <1>1, <3>3
  <2> HIDE DEF I
  <2>3. \A i \in 0 .. n : i \in I
    BY <1>1, <2>1, <2>2, UpTo
  <2> QED BY <2>3 DEF I
<1> QED
  BY <1>8, <1>9 DEF u, n, S

LEMMA FieldsType ==
  ASSUME NEW bytes \in Seq(Cell), NEW fields \in Seq(PlainField), NEW r \in Readers(Len(bytes))
  PROVE  ReadFields(fields, bytes, r) \in Readers(Len(bytes))
<1>1. Len(fields) \in 0 .. Len(fields)
  OBVIOUS
<1> QED
  BY <1>1, FieldsLoop DEF ReadFields

\* The overrides, one after the other.
LEMMA OverridesLoop ==
  ASSUME NEW bytes \in Seq(Cell), NEW f, f.of \in Seq(PlainField), NEW c \in Readers(Len(bytes))
  PROVE  LET u == OverridesUpto(f, bytes, c)
         IN /\ u[0] = c
            /\ \A i \in 1 .. c.number : u[i] = ReadFields(f.of, bytes, u[i - 1])
            /\ \A i \in 0 .. c.number : u[i] \in Readers(Len(bytes))
<1> DEFINE S == Readers(Len(bytes))
           n == c.number
           F == [x \in (1 .. n) \X S |-> ReadFields(f.of, bytes, x[2])]
           u == OverridesUpto(f, bytes, c)
<1>1. n \in Nat /\ c \in S
  BY ReaderParts
<1>2. \A r \in S : ReadFields(f.of, bytes, r) \in S
  BY FieldsType
<1>3. F \in Iterations(n, S)
  BY <1>2 DEF Iterations
<1>4. \A i \in 1 .. n : \A r \in S : F[<<i, r>>] = ReadFields(f.of, bytes, r)
  OBVIOUS
<1> HIDE DEF F, S, n
<1>5. PICK g : Runs(g, n, S, c, F)
  BY <1>1, <1>3, LoopExists, Zenon
<1> USE DEF Runs
<1>6. g = [i \in 0 .. n |-> IF i = 0 THEN c ELSE ReadFields(f.of, bytes, g[i - 1])]
  <2>1. ASSUME NEW i \in 0 .. n
        PROVE  g[i] = IF i = 0 THEN c ELSE ReadFields(f.of, bytes, g[i - 1])
    <3>1. CASE i = 0
      BY <1>5, <3>1
    <3>2. CASE i # 0
      <4>1. i \in 1 .. n /\ i - 1 \in 0 .. n
        BY <1>1, <3>2
      <4>2. g[i - 1] \in S
        BY <1>5, <4>1
      <4> QED BY <1>4, <1>5, <3>2, <4>1, <4>2
    <3> QED BY <3>1, <3>2
  <2> QED BY <1>5, <2>1
<1>7. u = [i \in 0 .. n |-> IF i = 0 THEN c ELSE ReadFields(f.of, bytes, u[i - 1])]
  BY <1>6, Zenon DEF OverridesUpto, n
<1> HIDE DEF u
<1>8. u[0] = c /\ \A i \in 1 .. n : u[i] = ReadFields(f.of, bytes, u[i - 1])
  BY <1>1, <1>7
<1>9. \A i \in 0 .. n : u[i] \in S
  <2> DEFINE I == {i \in 0 .. n : u[i] \in S}
  <2>1. 0 \in I
    BY <1>1, <1>8
  <2>2. ASSUME NEW i \in 1 .. n, i - 1 \in I
        PROVE  i \in I
    <3>1. u[i - 1] \in S
      BY <2>2
    <3>2. u[i] = ReadFields(f.of, bytes, u[i - 1])
      BY <1>8
    <3>3. u[i] \in S
      BY <1>2, <3>1, <3>2
    <3> QED BY <1>1, <3>3
  <2> HIDE DEF I
  <2>3. \A i \in 0 .. n : i \in I
    BY <1>1, <2>1, <2>2, UpTo
  <2> QED BY <2>3 DEF I
<1> QED
  BY <1>8, <1>9 DEF u, n, S

LEMMA RefuseType ==
  ASSUME NEW n \in Nat, NEW r \in Readers(n)
  PROVE  RefuseIf(TRUE, r) \in Readers(n)
BY DEF Readers, RefuseIf

LEMMA OverridesType ==
  ASSUME NEW bytes \in Seq(Cell), NEW f \in OverridesField, NEW r \in Readers(Len(bytes))
  PROVE  ReadOverrides(f, bytes, r) \in Readers(Len(bytes))
<1> DEFINE c == ReadNumber(r, bytes, f.name, Width32)
           m == Len(bytes)
<1>1. m \in Nat /\ Width32 \in Nat /\ f.of \in Seq(PlainField)
  BY CodecAssumption DEF OverridesField
<1>2. c \in Readers(m)
  BY <1>1, NumberType
<1>3. RefuseIf(TRUE, c) \in Readers(m)
  BY <1>1, <1>2, RefuseType
<1>4. c.number \in 0 .. c.number
  BY <1>1, <1>2, ReaderParts
<1>5. OverridesUpto(f, bytes, c)[c.number] \in Readers(m)
  <2> HIDE DEF c
  <2> QED BY <1>1, <1>2, <1>4, OverridesLoop
<1> QED
  BY <1>3, <1>5 DEF ReadOverrides

LEMMA ItemType ==
  ASSUME NEW bytes \in Seq(Cell), NEW f \in Item, NEW r \in Readers(Len(bytes))
  PROVE  ReadItem(f, bytes, r) \in Readers(Len(bytes))
<1>1. CASE f \in PlainField
  <2>1. f.kind # "overrides"
    BY <1>1, FieldParts DEF PlainKinds
  <2> QED BY <1>1, <2>1, FieldType DEF ReadItem
<1>2. CASE f \in OverridesField
  <2>1. f.kind = "overrides"
    BY <1>2 DEF OverridesField
  <2> QED BY <1>2, <2>1, OverridesType DEF ReadItem
<1> QED
  BY <1>1, <1>2 DEF Item

\* Whatever is read next, a reader that has failed stays as it is.
LEMMA FailedRead ==
  ASSUME NEW bytes \in Seq(Cell), NEW f \in Item, NEW r \in Readers(Len(bytes)), r.failed
  PROVE  ReadItem(f, bytes, r) = Fail(r)
<1> DEFINE m == Len(bytes)
           q == Fail(r)
<1>1. m \in Nat /\ kMaxOverrides \in Nat
  BY CodecAssumption
<1>2. q \in Readers(m) /\ q.failed /\ q.number = 0 /\ Fail(q) = q
  BY <1>1, FailType, FailTwice
<1>3. \A name, width : ReadNumber(r, bytes, name, width) = q
  BY DEF ReadNumber
<1> HIDE DEF q
<1>4. ReadString(r, bytes, f.name) = q /\ ReadStrings(r, bytes, f.name) = q
  BY <1>2, <1>3 DEF ReadString, ReadStrings
<1>5. ReadEnum(r, bytes, f.name) = q
  <2>1. ~(0 > LastStatus)
    BY DEF LastStatus
  <2> QED BY <1>1, <1>2, <1>3, <2>1 DEF ReadEnum, RefuseIf, Readers
<1>6. CASE f \in PlainField
  <2>1. f.kind \in PlainKinds
    BY <1>6, FieldParts
  <2>2. ReadItem(f, bytes, r) = ReadField(f, bytes, r)
    BY <2>1 DEF ReadItem, PlainKinds
  <2> QED BY <1>2, <1>3, <1>4, <1>5, <2>1, <2>2 DEF ReadField, PlainKinds, q
<1>7. CASE f \in OverridesField
  <2>1. f.kind = "overrides" /\ f.of \in Seq(PlainField)
    BY <1>7 DEF OverridesField
  <2>2. OverridesUpto(f, bytes, q)[0] = q
    BY <1>2, <2>1, OverridesLoop
  <2>3. ReadItem(f, bytes, r) =
          IF q.number > kMaxOverrides THEN RefuseIf(TRUE, q) ELSE OverridesUpto(f, bytes, q)[q.number]
    BY <1>3, <2>1 DEF ReadItem, ReadOverrides
  <2>4. ~(q.number > kMaxOverrides) /\ q.number = 0
    BY <1>1, <1>2
  <2>5. ReadItem(f, bytes, r) = q
    BY <2>2, <2>3, <2>4, Zenon
  <2> QED BY <2>5 DEF q
<1> QED
  BY <1>6, <1>7 DEF Item

-----------------------------------------------------------------------------
(* The lists of fields *)

LEMMA FieldsAreFields ==
  ASSUME NEW kind \in PlainKinds, NEW width \in Nat, NEW names \in Seq(FieldNames),
         kind = "enum" => width = 1
  PROVE  Fields(kind, width, names) \in Seq(PlainField)
<1> DEFINE L == Fields(kind, width, names)
<1>1. L = [i \in 1 .. Len(names) |-> Field(kind, width, names[i])]
  BY DEF Fields
<1>2. \A i \in 1 .. Len(names) : Field(kind, width, names[i]) \in PlainField
  BY DEF Field, PlainField
<1> HIDE DEF L
<1>3. L \in Seq(PlainField)
  BY <1>1, <1>2
<1> QED
  BY <1>3 DEF L

\* The groups of fields that the lists are made of.
Groups ==
  \A names \in Seq(FieldNames) :
    /\ U8(names) \in Seq(PlainField) /\ U32(names) \in Seq(PlainField)
    /\ U64(names) \in Seq(PlainField) /\ Vector(names) \in Seq(PlainField)
    /\ OptU8(names) \in Seq(PlainField) /\ Opt64(names) \in Seq(PlainField)
    /\ OptVector(names) \in Seq(PlainField) /\ String(names) \in Seq(PlainField)
    /\ Strings(names) \in Seq(PlainField) /\ Enum(names) \in Seq(PlainField)
    /\ Fields("number", kResourceCount, names) \in Seq(PlainField)

LEMMA GroupsAreFields == Groups
<1>1. /\ Width32 \in Nat /\ Width64 \in Nat /\ kResourceCount \in Nat
      /\ kResourceCount * Width64 \in Nat
  BY CodecAssumption
<1>2. /\ "number" \in PlainKinds /\ "optional" \in PlainKinds /\ "string" \in PlainKinds
      /\ "strings" \in PlainKinds /\ "enum" \in PlainKinds
  BY DEF PlainKinds
<1>3. SUFFICES ASSUME NEW names \in Seq(FieldNames)
               PROVE  /\ U8(names) \in Seq(PlainField) /\ U32(names) \in Seq(PlainField)
                      /\ U64(names) \in Seq(PlainField) /\ Vector(names) \in Seq(PlainField)
                      /\ OptU8(names) \in Seq(PlainField) /\ Opt64(names) \in Seq(PlainField)
                      /\ OptVector(names) \in Seq(PlainField) /\ String(names) \in Seq(PlainField)
                      /\ Strings(names) \in Seq(PlainField) /\ Enum(names) \in Seq(PlainField)
                      /\ Fields("number", kResourceCount, names) \in Seq(PlainField)
  BY DEF Groups
<1>4. U8(names) \in Seq(PlainField)
  BY <1>2, FieldsAreFields DEF U8
<1>5. U32(names) \in Seq(PlainField)
  BY <1>1, <1>2, FieldsAreFields DEF U32
<1>6. U64(names) \in Seq(PlainField)
  BY <1>1, <1>2, FieldsAreFields DEF U64
<1>7. Vector(names) \in Seq(PlainField)
  BY <1>1, <1>2, FieldsAreFields DEF Vector
<1>8. OptU8(names) \in Seq(PlainField)
  BY <1>2, FieldsAreFields DEF OptU8
<1>9. Opt64(names) \in Seq(PlainField)
  BY <1>1, <1>2, FieldsAreFields DEF Opt64
<1>10. OptVector(names) \in Seq(PlainField)
  BY <1>1, <1>2, FieldsAreFields DEF OptVector
<1>11. String(names) \in Seq(PlainField) /\ Strings(names) \in Seq(PlainField)
  BY <1>2, FieldsAreFields DEF String, Strings
<1>12. Enum(names) \in Seq(PlainField)
  BY <1>2, FieldsAreFields DEF Enum
<1>13. Fields("number", kResourceCount, names) \in Seq(PlainField)
  BY <1>1, <1>2, FieldsAreFields
<1> QED
  BY <1>4, <1>5, <1>6, <1>7, <1>8, <1>9, <1>10, <1>11, <1>12, <1>13

LEMMA FieldsJoin ==
  ASSUME NEW a \in Seq(PlainField), NEW b \in Seq(PlainField)
  PROVE  a \o b \in Seq(PlainField)
OBVIOUS

LEMMA ErrorFields == ErrorWritten \in Seq(PlainField)
<1>1. <<"code">> \in Seq(FieldNames) /\ <<"msg">> \in Seq(FieldNames)
  BY DEF FieldNames
<1>2. U32(<<"code">>) \in Seq(PlainField) /\ String(<<"msg">>) \in Seq(PlainField)
  BY <1>1, GroupsAreFields DEF Groups
<1> QED
  BY <1>2, FieldsJoin DEF ErrorWritten

LEMMA RegisterFields == RegisterWritten \in Seq(PlainField)
<1>1. /\ <<"agent", "boot">> \in Seq(FieldNames) /\ <<"caps">> \in Seq(FieldNames)
      /\ <<"inventory">> \in Seq(FieldNames) /\ <<"device_name">> \in Seq(FieldNames)
      /\ <<"device_index">> \in Seq(FieldNames)
  BY DEF FieldNames
<1> QED
  BY <1>1, GroupsAreFields, FieldsJoin DEF Groups, RegisterWritten

LEMMA DescriptorFields == DescriptorWritten \in Seq(PlainField)
<1>1. /\ <<"workload_type">> \in Seq(FieldNames)
      /\ <<"admission_request_id", "request_id", "attempt_id", "tenant_id", "model_id", "model_revision">> \in Seq(FieldNames)
      /\ <<"adapter_id">> \in Seq(FieldNames)
      /\ <<"policy_generation", "input_tokens", "expected_output_tokens", "max_output_tokens">> \in Seq(FieldNames)
      /\ <<"batchable", "priority", "latency_class">> \in Seq(FieldNames)
      /\ <<"deadline", "requested_slo">> \in Seq(FieldNames)
      /\ <<"expected_demand">> \in Seq(FieldNames)
      /\ <<"preemption", "degradation_permitted", "requires_reservation">> \in Seq(FieldNames)
      /\ <<"admission_ttl">> \in Seq(FieldNames)
      /\ <<"backend", "dtype", "quantization", "workload_class">> \in Seq(FieldNames)
      /\ <<"policy_tags">> \in Seq(FieldNames)
  BY DEF FieldNames
<1> QED
  BY <1>1, GroupsAreFields, FieldsJoin DEF Groups, DescriptorWritten

LEMMA SnapshotFields == SnapshotWritten \in Seq(PlainField)
<1>1. /\ <<"generation", "timestamp", "agent_id", "boot_id">> \in Seq(FieldNames)
      /\ <<"node_name">> \in Seq(FieldNames) /\ <<"device_index">> \in Seq(FieldNames)
      /\ <<"device_name">> \in Seq(FieldNames)
      /\ <<"total", "used", "reserved", "reclaimable">> \in Seq(FieldNames)
      /\ <<"capabilities">> \in Seq(FieldNames) /\ <<"healthy">> \in Seq(FieldNames)
      /\ <<"model_residency_hints", "transfer_path_hints">> \in Seq(FieldNames)
      /\ <<"pressure", "provenance">> \in Seq(FieldNames)
  BY DEF FieldNames
<1> QED
  BY <1>1, GroupsAreFields, FieldsJoin DEF Groups, SnapshotWritten

LEMMA ReservationFields == ReservationWritten \in Seq(PlainField)
<1>1. /\ <<"id", "owner">> \in Seq(FieldNames) /\ <<"demand">> \in Seq(FieldNames)
      /\ <<"created_at", "expires_at">> \in Seq(FieldNames)
      /\ <<"admission_request_id", "admission_generation">> \in Seq(FieldNames)
      /\ <<"status">> \in Seq(FieldNames) /\ <<"generation">> \in Seq(FieldNames)
  BY DEF FieldNames
<1> QED
  BY <1>1, GroupsAreFields, FieldsJoin DEF Groups, ReservationWritten

LEMMA QuotaFields == QuotaWritten \in Seq(PlainField)
<1>1. /\ <<"present">> \in Seq(FieldNames) /\ <<"generation">> \in Seq(FieldNames)
      /\ <<"source_authority">> \in Seq(FieldNames) /\ <<"timestamp">> \in Seq(FieldNames)
      /\ <<"stale">> \in Seq(FieldNames)
      /\ <<"limits", "used", "reserved">> \in Seq(FieldNames)
      /\ <<"token_budget">> \in Seq(FieldNames)
      /\ <<"max_concurrent_requests", "max_sequences">> \in Seq(FieldNames)
      /\ <<"compute_time_allowance">> \in Seq(FieldNames)
  BY DEF FieldNames
<1> QED
  BY <1>1, GroupsAreFields, FieldsJoin DEF Groups, QuotaWritten

LEMMA ObservationFields == ObservationWritten \in Seq(PlainField)
<1>1. /\ <<"id", "admission_request_id", "tenant_id", "model_id", "model_revision">> \in Seq(FieldNames)
      /\ <<"backend", "dtype", "quantization">> \in Seq(FieldNames)
      /\ <<"workload_type">> \in Seq(FieldNames)
      /\ <<"peak_vram", "host_memory", "pinned_memory", "kv_growth", "transfer_bytes", "execution_duration", "input_tokens", "output_tokens", "completed_at">> \in Seq(FieldNames)
      /\ <<"kind">> \in Seq(FieldNames)
  BY DEF FieldNames
<1> QED
  BY <1>1, GroupsAreFields, FieldsJoin DEF Groups, ObservationWritten

LEMMA DecisionFields == DecisionWritten \in Seq(PlainField)
<1>1. /\ <<"admission_request_id", "request_id", "attempt_id", "tenant_id", "model_id", "model_revision">> \in Seq(FieldNames)
      /\ <<"outcome">> \in Seq(FieldNames) /\ <<"reason">> \in Seq(FieldNames)
      /\ <<"policy_generation", "snapshot_generation", "admission_generation", "epoch", "confidence", "decision_time">> \in Seq(FieldNames)
      /\ <<"reservation_id">> \in Seq(FieldNames)
      /\ <<"predicted_requirement">> \in Seq(FieldNames)
      /\ <<"explanation">> \in Seq(FieldNames)
  BY DEF FieldNames
<1> QED
  BY <1>1, GroupsAreFields, FieldsJoin DEF Groups, DecisionWritten

LEMMA ProfileFields == ProfileWritten \in Seq(PlainField)
<1>1. /\ <<"model_id", "revision">> \in Seq(FieldNames)
      /\ <<"backend", "dtype", "quantization">> \in Seq(FieldNames)
      /\ <<"generation", "fixed_base_memory", "per_token_kv_bytes", "per_token_tensor_bytes", "per_request_overhead", "workspace_bytes", "staging_bytes", "pinned_staging_bytes", "safety_margin_ratio", "fragmentation_ratio", "prefill_tokens_per_sec", "decode_tokens_per_sec", "transfer_bytes_per_sequence", "transfer_bytes_per_sec", "host_memory_bytes", "pinned_host_memory_bytes">> \in Seq(FieldNames)
      /\ <<"execution_slots_required", "sequence_slots_required">> \in Seq(FieldNames)
  BY DEF FieldNames
<1> QED
  BY <1>1, GroupsAreFields, FieldsJoin DEF Groups, ProfileWritten

LEMMA PolicyFields == PolicyWritten \in Seq(Item)
<1> DEFINE fields ==
             String(<<"key">>) \o Opt64(<<"o.safety_headroom_ratio">>) \o OptU8(<<"o.overcommit_mode">>)
               \o OptVector(<<"o.overcommit_allowance">>) \o Opt64(<<"o.min_predictor_confidence">>)
               \o OptU8(<<"o.admit_slo_risk", "o.require_reservation">>)
               \o Opt64(<<"o.small_request_boost">>)
           first ==
             U64(<<"generation">>) \o String(<<"name">>) \o U64(<<"safety_headroom_ratio">>)
               \o Vector(<<"absolute_safety_margin">>) \o U8(<<"overcommit">>)
               \o Vector(<<"overcommit_allowance">>)
               \o U64(<<"overcommit_confidence_min", "min_predictor_confidence", "max_snapshot_age">>)
               \o U8(<<"accept_stale_snapshot", "quota_fail_closed", "admit_slo_feasible_with_risk",
                       "require_reservation">>)
               \o U64(<<"max_reservation_lifetime", "default_admission_ttl">>) \o U32(<<"max_deferrals">>)
               \o U64(<<"defer_min_backoff", "defer_max_wait", "small_request_priority_boost",
                        "large_request_starvation_boost">>)
               \o U32(<<"fairness_window">>)
<1>1. fields \in Seq(PlainField)
  <2>1. /\ <<"key">> \in Seq(FieldNames) /\ <<"o.safety_headroom_ratio">> \in Seq(FieldNames)
        /\ <<"o.overcommit_mode">> \in Seq(FieldNames)
        /\ <<"o.overcommit_allowance">> \in Seq(FieldNames)
        /\ <<"o.min_predictor_confidence">> \in Seq(FieldNames)
        /\ <<"o.admit_slo_risk", "o.require_reservation">> \in Seq(FieldNames)
        /\ <<"o.small_request_boost">> \in Seq(FieldNames)
    BY DEF FieldNames
  <2> QED
    BY <2>1, GroupsAreFields, FieldsJoin DEF Groups
<1>2. first \in Seq(PlainField)
  <2>1. /\ <<"generation">> \in Seq(FieldNames) /\ <<"name">> \in Seq(FieldNames)
        /\ <<"safety_headroom_ratio">> \in Seq(FieldNames)
        /\ <<"absolute_safety_margin">> \in Seq(FieldNames) /\ <<"overcommit">> \in Seq(FieldNames)
        /\ <<"overcommit_allowance">> \in Seq(FieldNames)
        /\ <<"overcommit_confidence_min", "min_predictor_confidence", "max_snapshot_age">>
             \in Seq(FieldNames)
        /\ <<"accept_stale_snapshot", "quota_fail_closed", "admit_slo_feasible_with_risk",
             "require_reservation">> \in Seq(FieldNames)
        /\ <<"max_reservation_lifetime", "default_admission_ttl">> \in Seq(FieldNames)
        /\ <<"max_deferrals">> \in Seq(FieldNames)
        /\ <<"defer_min_backoff", "defer_max_wait", "small_request_priority_boost",
             "large_request_starvation_boost">> \in Seq(FieldNames)
        /\ <<"fairness_window">> \in Seq(FieldNames)
    BY DEF FieldNames
  <2> QED
    BY <2>1, GroupsAreFields, FieldsJoin DEF Groups
<1>3. PolicyWritten = first \o Overrides(fields)
  BY DEF PolicyWritten
<1> HIDE DEF fields, first
<1>4. Overrides(fields) \in Seq(Item)
  <2>1. "overrides" \in FieldNames
    BY DEF FieldNames
  <2>2. [kind |-> "overrides", width |-> 0, name |-> "overrides", of |-> fields] \in OverridesField
    BY <1>1, <2>1 DEF OverridesField
  <2> QED BY <2>2 DEF Overrides, Item
<1>5. first \in Seq(Item)
  BY <1>2 DEF Item
<1> QED
  BY <1>3, <1>4, <1>5

\* Every decoder reads the list of fields that its encoder writes.
LEMMA ListsAgree ==
  ASSUME NEW s \in DOMAIN Structures
  PROVE  /\ s \in 1 .. 10
         /\ Structures[s].written \in Seq(Item) /\ Structures[s].read = Structures[s].written
<1>1. /\ ErrorRead = ErrorWritten /\ RegisterRead = RegisterWritten
      /\ DescriptorRead = DescriptorWritten /\ SnapshotRead = SnapshotWritten
      /\ ReservationRead = ReservationWritten
  BY Zenon DEF ErrorRead, ErrorWritten, RegisterRead, RegisterWritten, DescriptorRead,
               DescriptorWritten, SnapshotRead, SnapshotWritten, ReservationRead, ReservationWritten
<1>2. /\ PolicyRead = PolicyWritten /\ QuotaRead = QuotaWritten
      /\ ObservationRead = ObservationWritten /\ DecisionRead = DecisionWritten
      /\ ProfileRead = ProfileWritten
  BY Zenon DEF PolicyRead, PolicyWritten, QuotaRead, QuotaWritten, ObservationRead,
               ObservationWritten, DecisionRead, DecisionWritten, ProfileRead, ProfileWritten
<1>3. DecisionWritten \o U32(<<"error_code">>) \in Seq(PlainField)
  <2>1. <<"error_code">> \in Seq(FieldNames)
    BY DEF FieldNames
  <2> QED
    BY <2>1, DecisionFields, GroupsAreFields, FieldsJoin DEF Groups
<1>4. \A L \in Seq(PlainField) : L \in Seq(Item)
  BY DEF Item
<1>5. /\ ErrorWritten \in Seq(Item) /\ RegisterWritten \in Seq(Item)
      /\ DescriptorWritten \in Seq(Item) /\ SnapshotWritten \in Seq(Item)
      /\ ReservationWritten \in Seq(Item) /\ QuotaWritten \in Seq(Item)
      /\ ObservationWritten \in Seq(Item) /\ ProfileWritten \in Seq(Item)
      /\ DecisionWritten \o U32(<<"error_code">>) \in Seq(Item)
  BY <1>3, <1>4, ErrorFields, RegisterFields, DescriptorFields, SnapshotFields, ReservationFields,
     QuotaFields, ObservationFields, ProfileFields
<1> DEFINE D == DecisionWritten \o U32(<<"error_code">>)
<1>6. Structures = <<Structure(ErrorWritten, ErrorWritten), Structure(RegisterWritten, RegisterWritten),
                     Structure(DescriptorWritten, DescriptorWritten),
                     Structure(SnapshotWritten, SnapshotWritten),
                     Structure(ReservationWritten, ReservationWritten),
                     Structure(PolicyWritten, PolicyWritten), Structure(QuotaWritten, QuotaWritten),
                     Structure(ObservationWritten, ObservationWritten), Structure(D, D),
                     Structure(ProfileWritten, ProfileWritten)>>
  BY <1>1, <1>2, Zenon DEF Structures
<1>7. \A L : Structure(L, L).written = L /\ Structure(L, L).read = L
  BY DEF Structure
<1>8. D \in Seq(Item)
  BY <1>5
<1> HIDE DEF D
<1>9. s \in 1 .. 10
  BY <1>6
<1>10. /\ Structures[1] = Structure(ErrorWritten, ErrorWritten)
       /\ Structures[2] = Structure(RegisterWritten, RegisterWritten)
       /\ Structures[3] = Structure(DescriptorWritten, DescriptorWritten)
       /\ Structures[4] = Structure(SnapshotWritten, SnapshotWritten)
       /\ Structures[5] = Structure(ReservationWritten, ReservationWritten)
       /\ Structures[6] = Structure(PolicyWritten, PolicyWritten)
       /\ Structures[7] = Structure(QuotaWritten, QuotaWritten)
       /\ Structures[8] = Structure(ObservationWritten, ObservationWritten)
       /\ Structures[9] = Structure(D, D)
       /\ Structures[10] = Structure(ProfileWritten, ProfileWritten)
  BY <1>6
<1>11. \/ s = 1 \/ s = 2 \/ s = 3 \/ s = 4 \/ s = 5
       \/ s = 6 \/ s = 7 \/ s = 8 \/ s = 9 \/ s = 10
  BY <1>9
<1>12. \E L \in Seq(Item) : Structures[s] = Structure(L, L)
  BY <1>5, <1>8, <1>10, <1>11, PolicyFields, Zenon
<1> QED
  BY <1>7, <1>9, <1>12

-----------------------------------------------------------------------------
(* The writer *)

\* A part stands in the bytes after this position.
At(bytes, pos, part) ==
  pos + Len(part) <= Len(bytes) /\ \A j \in 1 .. Len(part) : bytes[pos + j] = part[j]

LEMMA AtJoin ==
  ASSUME NEW bytes \in Seq(Cell), NEW pos \in Nat, NEW a \in Seq(Cell), NEW b \in Seq(Cell),
         At(bytes, pos, a \o b)
  PROVE  At(bytes, pos, a) /\ At(bytes, pos + Len(a), b)
<1> DEFINE c == a \o b
<1>1. /\ c \in Seq(Cell) /\ Len(c) = Len(a) + Len(b)
      /\ \A j \in 1 .. Len(a) : c[j] = a[j]
      /\ \A j \in 1 .. Len(b) : c[Len(a) + j] = b[j]
  OBVIOUS
<1>2. pos + Len(c) <= Len(bytes) /\ \A j \in 1 .. Len(c) : bytes[pos + j] = c[j]
  BY DEF At
<1> HIDE DEF c
<1>3. At(bytes, pos, a)
  BY <1>1, <1>2 DEF At
<1>4. At(bytes, pos + Len(a), b)
  <2>1. ASSUME NEW j \in 1 .. Len(b) PROVE bytes[(pos + Len(a)) + j] = b[j]
    <3>1. Len(a) + j \in 1 .. Len(c)
      BY <1>1
    <3>2. bytes[pos + (Len(a) + j)] = b[j]
      BY <1>1, <1>2, <3>1
    <3>3. pos + (Len(a) + j) = (pos + Len(a)) + j
      OBVIOUS
    <3> QED BY <3>2, <3>3
  <2>2. (pos + Len(a)) + Len(b) <= Len(bytes)
    BY <1>1, <1>2
  <2> QED BY <2>1, <2>2 DEF At
<1> QED
  BY <1>3, <1>4

LEMMA AtWithin ==
  ASSUME NEW bytes \in Seq(Cell), NEW pos \in Nat, NEW whole \in Seq(Cell), NEW off \in Nat,
         NEW part \in Seq(Cell), At(bytes, pos, whole), At(whole, off, part)
  PROVE  At(bytes, pos + off, part)
<1>1. /\ pos + Len(whole) <= Len(bytes) /\ off + Len(part) <= Len(whole)
      /\ \A j \in 1 .. Len(whole) : bytes[pos + j] = whole[j]
      /\ \A j \in 1 .. Len(part) : whole[off + j] = part[j]
  BY DEF At
<1>2. ASSUME NEW j \in 1 .. Len(part) PROVE bytes[(pos + off) + j] = part[j]
  <2>1. off + j \in 1 .. Len(whole)
    BY <1>1
  <2>2. bytes[pos + (off + j)] = part[j]
    BY <1>1, <2>1
  <2>3. pos + (off + j) = (pos + off) + j
    OBVIOUS
  <2> QED BY <2>2, <2>3
<1>3. (pos + off) + Len(part) <= Len(bytes)
  BY <1>1
<1> QED
  BY <1>2, <1>3 DEF At

LEMMA AtEnd ==
  ASSUME NEW a \in Seq(Cell), NEW b \in Seq(Cell)
  PROVE  a \o b \in Seq(Cell) /\ Len(a \o b) = Len(a) + Len(b) /\ At(a \o b, Len(a), b)
BY DEF At

LEMMA AtBefore ==
  ASSUME NEW a \in Seq(Cell), NEW b \in Seq(Cell), NEW off \in Nat, NEW part \in Seq(Cell),
         At(a, off, part)
  PROVE  At(a \o b, off, part)
<1> DEFINE c == a \o b
<1>1. Len(c) = Len(a) + Len(b) /\ \A i \in 1 .. Len(a) : c[i] = a[i]
  OBVIOUS
<1> HIDE DEF c
<1>2. off + Len(part) <= Len(a) /\ \A j \in 1 .. Len(part) : a[off + j] = part[j]
  BY DEF At
<1>3. \A j \in 1 .. Len(part) : off + j \in 1 .. Len(a)
  BY <1>2
<1>4. \A j \in 1 .. Len(part) : c[off + j] = part[j]
  BY <1>1, <1>2, <1>3
<1>5. off + Len(part) <= Len(c)
  BY <1>1, <1>2
<1> QED
  BY <1>4, <1>5 DEF At, c

LEMMA AtStart ==
  ASSUME NEW bytes \in Seq(Cell)
  PROVE  At(bytes, 0, bytes)
BY DEF At

\* What is written after each part.
LEMMA ConcatLoop ==
  ASSUME NEW parts \in Seq(Seq(Cell))
  PROVE  LET u == ConcatUpto(parts)
         IN /\ u[0] = <<>>
            /\ \A i \in 1 .. Len(parts) : u[i] = u[i - 1] \o parts[i]
            /\ \A i \in 0 .. Len(parts) : u[i] \in Seq(Cell)
<1> DEFINE S == Seq(Cell)
           n == Len(parts)
           F == [x \in (1 .. n) \X S |-> x[2] \o parts[x[1]]]
           u == ConcatUpto(parts)
<1>1. n \in Nat /\ <<>> \in S
  OBVIOUS
<1>2. \A i \in 1 .. n : \A r \in S : r \o parts[i] \in S
  OBVIOUS
<1>3. F \in Iterations(n, S)
  BY <1>2 DEF Iterations
<1>4. \A i \in 1 .. n : \A r \in S : F[<<i, r>>] = r \o parts[i]
  OBVIOUS
<1> HIDE DEF F, S, n
<1>5. PICK g : Runs(g, n, S, <<>>, F)
  BY <1>1, <1>3, LoopExists, Zenon
<1> USE DEF Runs
<1>6. g = [i \in 0 .. n |-> IF i = 0 THEN <<>> ELSE g[i - 1] \o parts[i]]
  <2>1. ASSUME NEW i \in 0 .. n
        PROVE  g[i] = IF i = 0 THEN <<>> ELSE g[i - 1] \o parts[i]
    <3>1. CASE i = 0
      BY <1>5, <3>1
    <3>2. CASE i # 0
      <4>1. i \in 1 .. n /\ i - 1 \in 0 .. n
        BY <1>1, <3>2
      <4>2. g[i - 1] \in S
        BY <1>5, <4>1
      <4> QED BY <1>4, <1>5, <3>2, <4>1, <4>2
    <3> QED BY <3>1, <3>2
  <2> QED BY <1>5, <2>1
<1>7. u = [i \in 0 .. n |-> IF i = 0 THEN <<>> ELSE u[i - 1] \o parts[i]]
  BY <1>6, Zenon DEF ConcatUpto, n
<1> HIDE DEF u
<1>8. u[0] = <<>> /\ \A i \in 1 .. n : u[i] = u[i - 1] \o parts[i]
  <2>1. 0 \in 0 .. n /\ \A i \in 1 .. n : i \in 0 .. n /\ i # 0
    BY <1>1
  <2> QED BY <1>7, <2>1, Zenon
<1>9. \A i \in 0 .. n : u[i] \in S
  <2> DEFINE I == {i \in 0 .. n : u[i] \in S}
  <2>1. 0 \in I
    BY <1>1, <1>8
  <2>2. ASSUME NEW i \in 1 .. n, i - 1 \in I
        PROVE  i \in I
    <3>1. u[i - 1] \in S
      BY <2>2
    <3>2. u[i] = u[i - 1] \o parts[i]
      BY <1>8
    <3>3. u[i] \in S
      BY <1>2, <3>1, <3>2
    <3> QED BY <1>1, <3>3
  <2> HIDE DEF I
  <2>3. \A i \in 0 .. n : i \in I
    BY <1>1, <2>1, <2>2, UpTo
  <2> QED BY <2>3 DEF I
<1> QED
  BY <1>8, <1>9 DEF u, n, S

\* The position of a part, and the part there.
Offset(parts, i) == Len(ConcatUpto(parts)[i])

LEMMA ConcatAt ==
  ASSUME NEW parts \in Seq(Seq(Cell)), NEW k \in 1 .. Len(parts)
  PROVE  /\ Concat(parts) \in Seq(Cell)
         /\ Offset(parts, k - 1) \in Nat
         /\ Offset(parts, k) = Offset(parts, k - 1) + Len(parts[k])
         /\ At(Concat(parts), Offset(parts, k - 1), parts[k])
<1> DEFINE u == ConcatUpto(parts)
           n == Len(parts)
           off == Len(u[k - 1])
           p == parts[k]
           I == {j \in 0 .. n : j >= k => At(u[j], off, p)}
<1>1. /\ u[0] = <<>> /\ \A i \in 1 .. n : u[i] = u[i - 1] \o parts[i]
      /\ \A i \in 0 .. n : u[i] \in Seq(Cell)
  BY ConcatLoop
<1> HIDE DEF u
<1>2. n \in Nat /\ p \in Seq(Cell) /\ k - 1 \in 0 .. n /\ k \in 1 .. n
  OBVIOUS
<1>3. u[k - 1] \in Seq(Cell) /\ u[k] = u[k - 1] \o p
  BY <1>1, <1>2
<1>4. off \in Nat /\ Len(u[k]) = off + Len(p) /\ At(u[k], off, p)
  <2> HIDE DEF p
  <2> QED BY <1>2, <1>3, AtEnd
<1> HIDE DEF p, off, n
<1>5. 0 \in I
  BY <1>2
<1>6. ASSUME NEW j \in 1 .. n, j - 1 \in I
      PROVE  j \in I
  <2> SUFFICES ASSUME j >= k PROVE At(u[j], off, p)
    BY <1>2
  <2>1. CASE j = k
    BY <1>4, <2>1
  <2>2. CASE j # k
    <3> DEFINE w == u[j - 1]
               q == parts[j]
    <3>1. j - 1 \in 0 .. n /\ j - 1 >= k
      BY <1>2, <2>2
    <3>2. At(w, off, p)
      BY <1>6, <3>1
    <3>3. w \in Seq(Cell) /\ u[j] = w \o q
      BY <1>1, <3>1
    <3>4. q \in Seq(Cell)
      BY DEF n
    <3> HIDE DEF w, q
    <3> QED
      BY <1>2, <1>4, <3>2, <3>3, <3>4, AtBefore
  <2> QED BY <2>1, <2>2
<1>7. \A j \in 0 .. n : j \in I
  <2> HIDE DEF I
  <2> QED BY <1>2, <1>5, <1>6, UpTo
<1>8. n \in 0 .. n /\ n >= k
  BY <1>2
<1>9. At(u[n], off, p) /\ u[n] \in Seq(Cell)
  BY <1>1, <1>7, <1>8
<1> QED
  BY <1>4, <1>9 DEF Concat, Offset, u, n, off, p

LEMMA ConcatEnds ==
  ASSUME NEW parts \in Seq(Seq(Cell))
  PROVE  /\ Concat(parts) \in Seq(Cell) /\ Offset(parts, 0) = 0
         /\ Offset(parts, Len(parts)) = Len(Concat(parts))
<1> DEFINE u == ConcatUpto(parts)
<1>1. Len(parts) \in 0 .. Len(parts)
  OBVIOUS
<1>2. u[0] = <<>> /\ u[Len(parts)] \in Seq(Cell)
  BY <1>1, ConcatLoop
<1> HIDE DEF u
<1>3. Len(u[0]) = 0
  BY <1>2
<1> QED
  BY <1>2, <1>3 DEF Concat, Offset, u

LEMMA ContentFacts ==
  ASSUME NEW name \in FieldNames, NEW n \in Nat
  PROVE  LET c == Content(name, n)
         IN /\ c \in Seq(Cell) /\ Len(c) = n
            /\ \A i \in 1 .. n : c[i].name = name /\ c[i].value = 1
<1> DEFINE v == [i \in 1 .. n |-> 1]
           c == Content(name, n)
<1>1. c = [i \in 1 .. n |-> [name |-> name, value |-> v[i]]]
  BY DEF Content, Cells
<1>2. \A i \in 1 .. n : [name |-> name, value |-> v[i]] \in Cell /\ v[i] = 1
  BY DEF Cell
<1> HIDE DEF v, c
<1>3. c \in Seq(Cell) /\ Len(c) = n
  BY <1>1, <1>2
<1>4. \A i \in 1 .. n : c[i].name = name /\ c[i].value = 1
  BY <1>1, <1>2
<1> QED
  BY <1>3, <1>4 DEF c

LEMMA SmallFacts ==
  ASSUME NEW name \in FieldNames, NEW n \in Nat
  PROVE  LET c == Small(name, n)
         IN /\ c \in Seq(Cell) /\ Len(c) = Width32 /\ c[1].value = n
            /\ \A i \in 1 .. Width32 : c[i].name = name
            /\ \A i \in 2 .. Width32 : c[i].value = 0
<1> DEFINE w == Width32
           v == [i \in 1 .. w |-> IF i = 1 THEN n ELSE 0]
           c == Small(name, n)
<1>1. w \in Nat /\ 1 \in 1 .. w
  BY CodecAssumption
<1>2. c = [i \in 1 .. w |-> [name |-> name, value |-> v[i]]]
  BY DEF Small, Cells
<1>3. \A i \in 1 .. w : [name |-> name, value |-> v[i]] \in Cell
  BY DEF Cell
<1> HIDE DEF w
<1>4. v[1] = n /\ \A i \in 2 .. w : i \in 1 .. w /\ v[i] = 0
  <2>1. ASSUME NEW i \in 2 .. w PROVE i \in 1 .. w /\ i # 1
    BY <1>1
  <2> QED BY <1>1, <2>1
<1> HIDE DEF v, c
<1>5. c \in Seq(Cell) /\ Len(c) = w
  BY <1>1, <1>2, <1>3
<1>6. /\ c[1].value = n /\ \A i \in 1 .. w : c[i].name = name
      /\ \A i \in 2 .. w : c[i].value = 0
  BY <1>1, <1>2, <1>4
<1> QED
  BY <1>5, <1>6 DEF c, w

LEMMA FlagFacts ==
  ASSUME NEW name \in FieldNames, NEW v \in Nat
  PROVE  LET c == Cells(name, <<v>>)
         IN c \in Seq(Cell) /\ Len(c) = 1 /\ c[1].name = name /\ c[1].value = v
<1> DEFINE c == Cells(name, <<v>>)
<1>1. c = [i \in 1 .. 1 |-> [name |-> name, value |-> <<v>>[i]]]
  BY DEF Cells
<1>2. <<v>>[1] = v /\ [name |-> name, value |-> v] \in Cell
  BY DEF Cell
<1>3. \A i \in 1 .. 1 : [name |-> name, value |-> <<v>>[i]] = [name |-> name, value |-> v]
  BY <1>2
<1>4. c = [i \in 1 .. 1 |-> [name |-> name, value |-> v]]
  BY <1>1, <1>3
<1> HIDE DEF c
<1>5. c \in Seq(Cell) /\ Len(c) = 1 /\ c[1] = [name |-> name, value |-> v]
  BY <1>2, <1>4
<1> QED
  BY <1>5 DEF c

LEMMA StringWritten ==
  ASSUME NEW name \in FieldNames, NEW n \in Nat
  PROVE  /\ WriteString(name, n) \in Seq(Cell) /\ Len(WriteString(name, n)) = Width32 + n
         /\ WriteString(name, n) = Small(name, n) \o Content(name, n)
<1>1. Small(name, n) \in Seq(Cell) /\ Len(Small(name, n)) = Width32
  BY SmallFacts
<1>2. Content(name, n) \in Seq(Cell) /\ Len(Content(name, n)) = n
  BY ContentFacts
<1> QED
  BY <1>1, <1>2, AtEnd DEF WriteString

-----------------------------------------------------------------------------
(* Shapes: lengths and counts that a decoder takes. *)

Fits(f, shape) ==
  /\ f.kind = "string"   => shape[f] \in 0 .. kMaxLen
  /\ f.kind = "strings"  => shape[f] \in 0 .. kMaxCount
  /\ f.kind = "optional" => shape[f] \in {0, 1}

FitsItem(f, shape) ==
  IF f.kind = "overrides"
  THEN shape[f] \in 0 .. kMaxOverrides /\ \A i \in 1 .. Len(f.of) : Fits(f.of[i], shape)
  ELSE Fits(f, shape)

LEMMA ShapeFits ==
  ASSUME NEW fields \in Seq(Item), NEW F, NEW i \in 1 .. Len(fields)
  PROVE  FitsItem(fields[i], ShapeOf(fields, F))
<1> DEFINE V == Variables(fields)
           shape == ShapeOf(fields, F)
           f == fields[i]
<1>1. f \in Item
  OBVIOUS
<1>2. /\ kMaxLen \in Nat /\ kMaxCount \in Nat /\ kMaxOverrides \in Nat
  BY CodecAssumption
<1>3. \A g \in V : shape[g] = IF g \in F THEN Most(g.kind) ELSE 0
  BY DEF ShapeOf
<1>4. f.kind \notin {"number", "enum"} => f \in V
  BY DEF Variables, Varying
<1>5. ASSUME f.kind = "overrides", NEW j \in 1 .. Len(f.of), f.of[j].kind \notin {"number", "enum"}
      PROVE  f.of[j] \in V
  <2>1. f \in Varying(fields)
    BY <1>5 DEF Varying
  <2>2. f.of[j] \in Varying(f.of)
    <3>1. f.of \in Seq(PlainField)
      BY <1>1, <1>5, FieldParts DEF Item, OverridesField, PlainKinds
    <3> QED BY <1>5, <3>1 DEF Varying
  <2> QED BY <1>5, <2>1, <2>2 DEF Variables
<1> HIDE DEF V, shape, f
<1>6. \A g \in V : Fits(g, shape) /\ (g.kind = "overrides" => shape[g] \in 0 .. kMaxOverrides)
  BY <1>2, <1>3 DEF Fits, Most
<1>7. CASE f.kind = "overrides"
  <2>1. shape[f] \in 0 .. kMaxOverrides
    BY <1>4, <1>6, <1>7
  <2>2. ASSUME NEW j \in 1 .. Len(f.of) PROVE Fits(f.of[j], shape)
    BY <1>5, <1>6, <1>7 DEF Fits
  <2> QED BY <1>7, <2>1, <2>2 DEF FitsItem, f, shape
<1>8. CASE f.kind # "overrides"
  <2>1. Fits(f, shape)
    BY <1>4, <1>6 DEF Fits
  <2> QED BY <1>8, <2>1 DEF FitsItem, f, shape
<1> QED
  BY <1>7, <1>8

StringParts(f, shape) == [i \in 1 .. shape[f] |-> WriteString(f.name, i % (kMaxLen + 1))]

LEMMA StringPartsFacts ==
  ASSUME NEW f \in PlainField, NEW shape, shape[f] \in Nat
  PROVE  /\ StringParts(f, shape) \in Seq(Seq(Cell)) /\ Len(StringParts(f, shape)) = shape[f]
         /\ \A i \in 1 .. shape[f] :
              /\ i % (kMaxLen + 1) \in 0 .. kMaxLen
              /\ StringParts(f, shape)[i] = WriteString(f.name, i % (kMaxLen + 1))
<1> DEFINE n == shape[f]
           P == StringParts(f, shape)
           m == kMaxLen
<1>1. m \in Nat /\ n \in Nat /\ f.name \in FieldNames
  BY CodecAssumption, FieldParts
<1>2. P = [i \in 1 .. n |-> WriteString(f.name, i % (m + 1))]
  BY DEF StringParts
<1> HIDE DEF n, m, P
<1>3. \A i \in 1 .. n : i % (m + 1) \in 0 .. m
  BY <1>1
<1>4. \A i \in 1 .. n : WriteString(f.name, i % (m + 1)) \in Seq(Cell)
  BY <1>1, <1>3, StringWritten
<1>5. P \in Seq(Seq(Cell)) /\ Len(P) = n
  BY <1>1, <1>2, <1>4
<1>6. \A i \in 1 .. n : P[i] = WriteString(f.name, i % (m + 1))
  BY <1>2
<1> QED
  BY <1>3, <1>5, <1>6 DEF n, P, m

LEMMA FieldWritten ==
  ASSUME NEW f \in PlainField, NEW shape, Fits(f, shape)
  PROVE  WriteField(f, shape) \in Seq(Cell)
<1>1. f.kind \in PlainKinds /\ f.width \in Nat /\ f.name \in FieldNames
  BY FieldParts
<1>2. kMaxLen \in Nat /\ kMaxCount \in Nat
  BY CodecAssumption
<1>3. Content(f.name, f.width) \in Seq(Cell)
  BY <1>1, ContentFacts
<1>4. CASE f.kind \in {"number", "enum"}
  BY <1>3, <1>4 DEF WriteField
<1>5. CASE f.kind = "string"
  <2>1. shape[f] \in Nat
    BY <1>2, <1>5 DEF Fits
  <2>2. WriteString(f.name, shape[f]) \in Seq(Cell)
    BY <1>1, <2>1, StringWritten
  <2> QED BY <1>5, <2>2 DEF WriteField
<1>6. CASE f.kind = "strings"
  <2>1. shape[f] \in Nat
    BY <1>2, <1>6 DEF Fits
  <2>2. Small(f.name, shape[f]) \in Seq(Cell)
    BY <1>1, <2>1, SmallFacts
  <2>3. Concat(StringParts(f, shape)) \in Seq(Cell)
    BY <2>1, StringPartsFacts, ConcatEnds
  <2>4. WriteField(f, shape) = Small(f.name, shape[f]) \o Concat(StringParts(f, shape))
    BY <1>6 DEF WriteField, StringParts
  <2> QED BY <2>2, <2>3, <2>4
<1>7. CASE f.kind = "optional"
  <2>1. shape[f] \in Nat
    BY <1>7 DEF Fits
  <2>2. Cells(f.name, <<shape[f]>>) \in Seq(Cell)
    BY <1>1, <2>1, FlagFacts
  <2>3. WriteField(f, shape) =
          Cells(f.name, <<shape[f]>>) \o (IF shape[f] = 1 THEN Content(f.name, f.width) ELSE <<>>)
    BY <1>7 DEF WriteField
  <2>4. (IF shape[f] = 1 THEN Content(f.name, f.width) ELSE <<>>) \in Seq(Cell)
    BY <1>3
  <2> QED BY <2>2, <2>3, <2>4
<1> QED
  BY <1>1, <1>4, <1>5, <1>6, <1>7 DEF PlainKinds

\* The parts of a list of fields, and of the overrides.
Parts(fields, shape) == [i \in DOMAIN fields |-> WriteField(fields[i], shape)]

LEMMA PartsFacts ==
  ASSUME NEW fields \in Seq(PlainField), NEW shape, \A i \in 1 .. Len(fields) : Fits(fields[i], shape)
  PROVE  /\ Parts(fields, shape) \in Seq(Seq(Cell)) /\ Len(Parts(fields, shape)) = Len(fields)
         /\ \A i \in 1 .. Len(fields) : Parts(fields, shape)[i] = WriteField(fields[i], shape)
         /\ WriteFields(fields, shape) = Concat(Parts(fields, shape))
<1> DEFINE n == Len(fields)
           P == Parts(fields, shape)
<1>1. n \in Nat /\ P = [i \in 1 .. n |-> WriteField(fields[i], shape)]
  BY DEF Parts
<1>2. \A i \in 1 .. n : WriteField(fields[i], shape) \in Seq(Cell)
  BY FieldWritten
<1>3. WriteFields(fields, shape) = Concat(P)
  BY DEF WriteFields, Parts
<1> HIDE DEF n, P
<1>4. P \in Seq(Seq(Cell)) /\ Len(P) = n /\ \A i \in 1 .. n : P[i] = WriteField(fields[i], shape)
  BY <1>1, <1>2
<1> QED
  BY <1>3, <1>4 DEF n, P

OverrideParts(f, shape) == [j \in 1 .. shape[f] |-> WriteFields(f.of, shape)]

LEMMA OverridesWritten ==
  ASSUME NEW f \in OverridesField, NEW shape, FitsItem(f, shape)
  PROVE  LET P == OverrideParts(f, shape)
         IN /\ f.kind = "overrides" /\ f.name \in FieldNames /\ f.of \in Seq(PlainField)
            /\ shape[f] \in 0 .. kMaxOverrides
            /\ \A i \in 1 .. Len(f.of) : Fits(f.of[i], shape)
            /\ P \in Seq(Seq(Cell)) /\ Len(P) = shape[f]
            /\ \A j \in 1 .. shape[f] : P[j] = WriteFields(f.of, shape)
            /\ WriteFields(f.of, shape) \in Seq(Cell)
            /\ WriteItem(f, shape) = Small(f.name, shape[f]) \o Concat(P)
            /\ WriteItem(f, shape) \in Seq(Cell)
<1> DEFINE P == OverrideParts(f, shape)
           n == shape[f]
<1>1. f.kind = "overrides" /\ f.name \in FieldNames /\ f.of \in Seq(PlainField)
  BY DEF OverridesField
<1>2. n \in 0 .. kMaxOverrides /\ \A i \in 1 .. Len(f.of) : Fits(f.of[i], shape)
  BY <1>1 DEF FitsItem
<1>3. n \in Nat
  BY <1>2, CodecAssumption
<1>4. WriteFields(f.of, shape) \in Seq(Cell)
  BY <1>1, <1>2, PartsFacts, ConcatEnds
<1>5. P = [j \in 1 .. n |-> WriteFields(f.of, shape)]
  BY DEF OverrideParts
<1>6. WriteItem(f, shape) = Small(f.name, n) \o Concat(P)
  BY <1>1 DEF WriteItem, WriteOverrides, OverrideParts
<1>7. Small(f.name, n) \in Seq(Cell)
  BY <1>1, <1>3, SmallFacts
<1> HIDE DEF P, n
<1>8. P \in Seq(Seq(Cell)) /\ Len(P) = n /\ \A j \in 1 .. n : P[j] = WriteFields(f.of, shape)
  BY <1>3, <1>4, <1>5
<1>9. Concat(P) \in Seq(Cell)
  BY <1>8, ConcatEnds
<1>10. WriteItem(f, shape) \in Seq(Cell)
  BY <1>6, <1>7, <1>9
<1> QED
  BY <1>1, <1>2, <1>4, <1>6, <1>8, <1>10 DEF P, n

LEMMA ItemWritten ==
  ASSUME NEW f \in Item, NEW shape, FitsItem(f, shape)
  PROVE  WriteItem(f, shape) \in Seq(Cell)
<1>1. CASE f \in OverridesField
  BY <1>1, OverridesWritten
<1>2. CASE f \in PlainField
  <2>1. f.kind # "overrides"
    BY <1>2, FieldParts DEF PlainKinds
  <2> QED BY <1>2, <2>1, FieldWritten DEF FitsItem, WriteItem
<1> QED
  BY <1>1, <1>2 DEF Item

\* A whole structure and its parts.
ItemParts(fields, shape) == [i \in DOMAIN fields |-> WriteItem(fields[i], shape)]

LEMMA StructureWritten ==
  ASSUME NEW fields \in Seq(Item), NEW F
  PROVE  LET shape == ShapeOf(fields, F)
             P == ItemParts(fields, shape)
         IN /\ P \in Seq(Seq(Cell)) /\ Len(P) = Len(fields)
            /\ \A i \in 1 .. Len(fields) : P[i] = WriteItem(fields[i], shape)
            /\ Write(fields, shape) = Concat(P) /\ Write(fields, shape) \in Seq(Cell)
<1> DEFINE shape == ShapeOf(fields, F)
           P == ItemParts(fields, shape)
           n == Len(fields)
<1>1. n \in Nat /\ P = [i \in 1 .. n |-> WriteItem(fields[i], shape)]
  BY DEF ItemParts
<1>2. \A i \in 1 .. n : WriteItem(fields[i], shape) \in Seq(Cell)
  BY ItemWritten, ShapeFits
<1>3. Write(fields, shape) = Concat(P)
  BY DEF Write, ItemParts
<1> HIDE DEF shape, P, n
<1>4. P \in Seq(Seq(Cell)) /\ Len(P) = n /\ \A i \in 1 .. n : P[i] = WriteItem(fields[i], shape)
  BY <1>1, <1>2
<1>5. Concat(P) \in Seq(Cell)
  BY <1>4, ConcatEnds
<1> QED
  BY <1>3, <1>4, <1>5 DEF shape, P, n

-----------------------------------------------------------------------------
(* What was written is read back. *)

\* A reader at a position, with nothing wrong so far.
Clean(r, pos) == r.pos = pos /\ ~r.failed /\ ~r.refused /\ ~r.misread

Named(part, name) == \A i \in 1 .. Len(part) : part[i].name = name

LEMMA AdvanceOver ==
  ASSUME NEW bytes \in Seq(Cell), NEW pos \in Nat, NEW name, NEW r \in Readers(Len(bytes)),
         Clean(r, pos), NEW part \in Seq(Cell), At(bytes, pos, part), Named(part, name)
  PROVE  LET s == Advance(r, bytes, name, Len(part))
         IN s \in Readers(Len(bytes)) /\ Clean(s, pos + Len(part))
<1> DEFINE n == Len(part)
           s == Advance(r, bytes, name, n)
           b == \E i \in r.pos + 1 .. r.pos + n : i \in DOMAIN bytes /\ bytes[i].name # name
<1>1. /\ n \in Nat /\ Len(bytes) \in Nat /\ r.pos = pos /\ r.pos + n <= Len(bytes)
      /\ \A j \in 1 .. n : bytes[pos + j] = part[j] /\ part[j].name = name
  BY DEF At, Clean, Named
<1>2. ~b
  <2> SUFFICES ASSUME NEW i \in pos + 1 .. pos + n PROVE bytes[i].name = name
    BY <1>1
  <2>1. i - pos \in 1 .. n /\ pos + (i - pos) = i
    BY <1>1
  <2> QED BY <1>1, <2>1
<1>3. s.misread = (r.misread \/ b)
  BY DEF Advance, Readers
<1>4. /\ s \in Readers(Len(bytes)) /\ s.pos = r.pos + n /\ s.failed = r.failed
      /\ s.refused = r.refused
  BY <1>1, AdvanceType
<1>5. ~r.failed /\ ~r.refused /\ ~r.misread
  BY DEF Clean
<1> HIDE DEF s, b, n
<1>6. ~s.misread
  BY <1>2, <1>3, <1>5
<1>7. Clean(s, pos + n)
  BY <1>1, <1>4, <1>5, <1>6 DEF Clean
<1> QED
  BY <1>4, <1>7 DEF s, n

LEMMA NumberBack ==
  ASSUME NEW bytes \in Seq(Cell), NEW pos \in Nat, NEW name, NEW r \in Readers(Len(bytes)),
         Clean(r, pos), NEW part \in Seq(Cell), At(bytes, pos, part), Named(part, name)
  PROVE  LET s == ReadNumber(r, bytes, name, Len(part))
         IN /\ s \in Readers(Len(bytes)) /\ Clean(s, pos + Len(part))
            /\ s.number = NumberOf(bytes, pos, Len(part))
<1> DEFINE n == Len(part)
           s == ReadNumber(r, bytes, name, n)
           t == Advance(r, bytes, name, n)
<1>1. n \in Nat /\ r.pos = pos /\ ~r.failed /\ ~r.refused
  BY DEF Clean
<1>2. Taken(r, bytes, n) = n
  BY <1>1 DEF Taken, At
<1>3. /\ s \in Readers(Len(bytes)) /\ s.pos = r.pos + n /\ s.failed = (n < n)
      /\ s.refused = r.refused /\ s.misread = t.misread /\ s.number = NumberOf(bytes, r.pos, n)
  BY <1>1, <1>2, NumberRead
<1>4. Clean(t, pos + n)
  BY AdvanceOver
<1> HIDE DEF s, t, n
<1>5. ~s.failed /\ ~s.refused /\ ~s.misread /\ s.pos = pos + n
  <2>1. ~(n < n)
    BY <1>1
  <2>2. ~s.failed
    BY <1>3, <2>1
  <2>3. ~t.misread
    BY <1>4 DEF Clean
  <2> QED BY <1>1, <1>3, <2>2, <2>3
<1> QED
  BY <1>1, <1>3, <1>5 DEF Clean, s, n

\* A length or a count.
LEMMA SmallBack ==
  ASSUME NEW bytes \in Seq(Cell), NEW pos \in Nat, NEW name \in FieldNames,
         NEW r \in Readers(Len(bytes)), Clean(r, pos), NEW n \in Nat,
         At(bytes, pos, Small(name, n))
  PROVE  LET s == ReadNumber(r, bytes, name, Width32)
         IN s \in Readers(Len(bytes)) /\ Clean(s, pos + Width32) /\ s.number = n
<1> DEFINE c == Small(name, n)
           w == Width32
<1>1. w \in Nat /\ w # 0
  BY CodecAssumption
<1>2. /\ c \in Seq(Cell) /\ Len(c) = w /\ c[1].value = n
      /\ \A i \in 1 .. w : c[i].name = name
      /\ \A i \in 2 .. w : c[i].value = 0
  BY SmallFacts
<1>3. Named(c, name)
  BY <1>2 DEF Named
<1> HIDE DEF c, w
<1>4. \A j \in 1 .. w : bytes[pos + j] = c[j]
  BY <1>2 DEF At, c
<1>5. NumberOf(bytes, pos, w) = n
  <2>1. bytes[pos + 1].value = n
    <3>1. 1 \in 1 .. w
      BY <1>1
    <3> QED BY <1>2, <1>4, <3>1
  <2>2. ASSUME NEW i \in pos + 2 .. pos + w PROVE bytes[i].value = 0
    <3>1. i - pos \in 1 .. w /\ i - pos \in 2 .. w /\ pos + (i - pos) = i
      BY <1>1
    <3> QED BY <1>2, <1>4, <3>1
  <2> QED BY <1>1, <2>1, <2>2 DEF NumberOf
<1>6. LET s == ReadNumber(r, bytes, name, Len(c))
      IN s \in Readers(Len(bytes)) /\ Clean(s, pos + Len(c)) /\ s.number = NumberOf(bytes, pos, Len(c))
  BY <1>2, <1>3, NumberBack DEF c
<1> QED
  BY <1>2, <1>5, <1>6 DEF w

LEMMA StringBack ==
  ASSUME NEW bytes \in Seq(Cell), NEW pos \in Nat, NEW name \in FieldNames,
         NEW r \in Readers(Len(bytes)), Clean(r, pos), NEW n \in 0 .. kMaxLen,
         At(bytes, pos, WriteString(name, n))
  PROVE  LET s == ReadString(r, bytes, name)
         IN s \in Readers(Len(bytes)) /\ Clean(s, pos + Len(WriteString(name, n)))
<1> DEFINE l == ReadNumber(r, bytes, name, Width32)
           c == Content(name, n)
           q == pos + Width32
<1>1. n \in Nat /\ n <= kMaxLen /\ kMaxLen \in Nat /\ Width32 \in Nat /\ q \in Nat
  BY CodecAssumption
<1>2. c \in Seq(Cell) /\ Len(c) = n /\ Named(c, name)
  BY <1>1, ContentFacts DEF Named
<1>3. Small(name, n) \in Seq(Cell) /\ Len(Small(name, n)) = Width32
  BY <1>1, SmallFacts
<1>4. At(bytes, pos, Small(name, n)) /\ At(bytes, q, c)
  <2>1. At(bytes, pos, Small(name, n) \o c)
    BY <1>1, StringWritten
  <2> HIDE DEF c
  <2> QED BY <1>2, <1>3, <2>1, AtJoin
<1>5. l \in Readers(Len(bytes)) /\ Clean(l, q) /\ l.number = n
  BY <1>1, <1>4, SmallBack
<1>6. ReadString(r, bytes, name) =
        LET s == IF l.failed \/ l.number > kMaxLen THEN Fail(l) ELSE Need(l, bytes, l.number)
        IN IF s.failed THEN s ELSE Advance(s, bytes, name, l.number)
  BY DEF ReadString
<1> HIDE DEF l, c, q
<1>7. Need(l, bytes, n) = l
  BY <1>1, <1>2, <1>4, <1>5 DEF Need, At, Clean
<1>8. ReadString(r, bytes, name) = Advance(l, bytes, name, n)
  <2>1. ~l.failed /\ ~(l.number > kMaxLen)
    BY <1>1, <1>5 DEF Clean
  <2> QED BY <1>5, <1>6, <1>7, <2>1, Zenon
<1>9. LET s == Advance(l, bytes, name, n) IN s \in Readers(Len(bytes)) /\ Clean(s, q + n)
  BY <1>1, <1>2, <1>4, <1>5, AdvanceOver
<1>10. q + n = pos + Len(WriteString(name, n))
  <2>1. Len(WriteString(name, n)) = Width32 + n
    BY <1>1, StringWritten
  <2> QED BY <1>1, <2>1 DEF q
<1> QED
  BY <1>8, <1>9, <1>10

\* The next of the parts that follow each other after a position.
LEMMA PartAt ==
  ASSUME NEW bytes \in Seq(Cell), NEW q \in Nat, NEW P \in Seq(Seq(Cell)), NEW i \in 1 .. Len(P),
         At(bytes, q, Concat(P))
  PROVE  /\ q + Offset(P, i - 1) \in Nat /\ At(bytes, q + Offset(P, i - 1), P[i])
         /\ (q + Offset(P, i - 1)) + Len(P[i]) = q + Offset(P, i)
<1> DEFINE w == Concat(P)
           o == Offset(P, i - 1)
           p == P[i]
<1>1. w \in Seq(Cell) /\ o \in Nat /\ Offset(P, i) = o + Len(p) /\ At(w, o, p)
  BY ConcatAt
<1>2. p \in Seq(Cell)
  OBVIOUS
<1>3. At(bytes, q, w)
  OBVIOUS
<1> HIDE DEF w, o, p
<1>4. At(bytes, q + o, p)
  BY <1>1, <1>2, <1>3, AtWithin
<1>5. q + o \in Nat /\ (q + o) + Len(p) = q + (o + Len(p))
  BY <1>1, <1>2
<1> QED
  BY <1>1, <1>4, <1>5 DEF o, p

LEMMA StringsBack ==
  ASSUME NEW bytes \in Seq(Cell), NEW pos \in Nat, NEW r \in Readers(Len(bytes)), Clean(r, pos),
         NEW f \in PlainField, NEW shape, shape[f] \in 0 .. kMaxCount,
         At(bytes, pos, Small(f.name, shape[f]) \o Concat(StringParts(f, shape)))
  PROVE  Clean(ReadStrings(r, bytes, f.name),
               pos + Len(Small(f.name, shape[f]) \o Concat(StringParts(f, shape))))
<1> DEFINE n == shape[f]
           P == StringParts(f, shape)
           a == Small(f.name, n)
           b == Concat(P)
           q == pos + Width32
           c == ReadNumber(r, bytes, f.name, Width32)
           u == StringsUpto(c, bytes, f.name)
           I == {i \in 0 .. n : Clean(u[i], q + Offset(P, i))}
<1>1. n \in Nat /\ ~(n > kMaxCount) /\ Width32 \in Nat /\ q \in Nat /\ f.name \in FieldNames
  BY CodecAssumption, FieldParts
<1>2. /\ P \in Seq(Seq(Cell)) /\ Len(P) = n
      /\ \A i \in 1 .. n : /\ i % (kMaxLen + 1) \in 0 .. kMaxLen
                           /\ P[i] = WriteString(f.name, i % (kMaxLen + 1))
  BY <1>1, StringPartsFacts
<1>3. a \in Seq(Cell) /\ Len(a) = Width32
  BY <1>1, SmallFacts
<1>4. b \in Seq(Cell) /\ Offset(P, 0) = 0 /\ Offset(P, n) = Len(b)
  BY <1>2, ConcatEnds
<1>5. At(bytes, pos, a) /\ At(bytes, q, b)
  <2>1. At(bytes, pos, a \o b)
    OBVIOUS
  <2> HIDE DEF a, b
  <2> QED BY <1>3, <1>4, <2>1, AtJoin
<1>6. c \in Readers(Len(bytes)) /\ Clean(c, q) /\ c.number = n
  BY <1>1, <1>5, SmallBack
<1>7. ReadStrings(r, bytes, f.name) =
        IF c.failed \/ c.number > kMaxCount THEN Fail(c) ELSE u[c.number]
  BY DEF ReadStrings
<1>8. ReadStrings(r, bytes, f.name) = u[n]
  BY <1>1, <1>6, <1>7, Zenon DEF Clean
<1> HIDE DEF c
<1>9. /\ u[0] = c /\ \A i \in 1 .. n : u[i] = ReadString(u[i - 1], bytes, f.name)
      /\ \A i \in 0 .. n : u[i] \in Readers(Len(bytes))
  BY <1>6, StringsLoop
<1> HIDE DEF u, P, a, b, q, n
<1>10. 0 \in I
  BY <1>1, <1>4, <1>6, <1>9
<1>11. ASSUME NEW i \in 1 .. n, i - 1 \in I
       PROVE  i \in I
  <2> DEFINE o == q + Offset(P, i - 1)
             m == i % (kMaxLen + 1)
             v == u[i - 1]
  <2>1. o \in Nat /\ At(bytes, o, P[i]) /\ o + Len(P[i]) = q + Offset(P, i)
    BY <1>1, <1>2, <1>5, PartAt DEF b
  <2>2. Clean(v, o) /\ v \in Readers(Len(bytes)) /\ i \in 0 .. n
    BY <1>1, <1>9, <1>11
  <2>3. m \in 0 .. kMaxLen /\ P[i] = WriteString(f.name, m)
    BY <1>2
  <2>4. u[i] = ReadString(v, bytes, f.name)
    BY <1>9
  <2> HIDE DEF o, m, v
  <2>5. Clean(u[i], o + Len(P[i]))
    BY <1>1, <2>1, <2>2, <2>3, <2>4, StringBack
  <2> QED BY <2>1, <2>2, <2>5
<1>12. \A i \in 0 .. n : i \in I
  <2> HIDE DEF I
  <2> QED BY <1>1, <1>10, <1>11, UpTo
<1>13. Clean(u[n], q + Len(b))
  BY <1>1, <1>4, <1>12
<1>14. q + Len(b) = pos + Len(a \o b)
  BY <1>1, <1>3, <1>4, AtEnd DEF q
<1> QED
  BY <1>8, <1>13, <1>14 DEF a, b, n, P

LEMMA FieldBack ==
  ASSUME NEW bytes \in Seq(Cell), NEW pos \in Nat, NEW r \in Readers(Len(bytes)), Clean(r, pos),
         NEW f \in PlainField, NEW shape, Fits(f, shape), At(bytes, pos, WriteField(f, shape))
  PROVE  Clean(ReadField(f, bytes, r), pos + Len(WriteField(f, shape)))
<1> DEFINE w == WriteField(f, shape)
           c == Content(f.name, f.width)
           s == ReadField(f, bytes, r)
<1>1. /\ f.kind \in PlainKinds /\ f.width \in Nat /\ f.name \in FieldNames
      /\ (f.kind = "enum" => f.width = 1)
  BY FieldParts
<1>2. /\ c \in Seq(Cell) /\ Len(c) = f.width /\ Named(c, f.name)
      /\ \A i \in 1 .. f.width : c[i].value = 1
  BY <1>1, ContentFacts DEF Named
<1>3. CASE f.kind = "number"
  <2>1. w = c /\ s = ReadNumber(r, bytes, f.name, f.width)
    BY <1>3 DEF WriteField, ReadField
  <2> HIDE DEF c
  <2> QED BY <1>2, <2>1, NumberBack
<1>4. CASE f.kind = "enum"
  <2> DEFINE e == ReadNumber(r, bytes, f.name, 1)
  <2>1. w = c /\ s = ReadEnum(r, bytes, f.name) /\ f.width = 1
    BY <1>1, <1>4 DEF WriteField, ReadField
  <2>2. c \in Seq(Cell) /\ Named(c, f.name) /\ At(bytes, pos, c) /\ Len(c) = 1 /\ c[1].value = 1
    BY <1>2, <2>1
  <2> HIDE DEF c
  <2>3. e \in Readers(Len(bytes)) /\ Clean(e, pos + 1) /\ e.number = NumberOf(bytes, pos, 1)
    <3>1. LET t == ReadNumber(r, bytes, f.name, Len(c))
          IN /\ t \in Readers(Len(bytes)) /\ Clean(t, pos + Len(c))
             /\ t.number = NumberOf(bytes, pos, Len(c))
      BY <2>2, NumberBack, Zenon
    <3> QED BY <2>2, <3>1
  <2>4. NumberOf(bytes, pos, 1) = 1
    <3>1. bytes[pos + 1] = c[1]
      BY <2>2 DEF At
    <3> QED BY <2>2, <3>1 DEF NumberOf
  <2>5. s = RefuseIf(e.number > LastStatus, e)
    BY <2>1 DEF ReadEnum
  <2> HIDE DEF e, s
  <2>6. ~(e.number > LastStatus)
    BY <2>3, <2>4 DEF LastStatus
  <2>7. s = [e EXCEPT !.refused = FALSE]
    BY <2>3, <2>5, <2>6 DEF RefuseIf, Clean
  <2>8. Clean(s, pos + 1)
    BY <2>3, <2>7 DEF Clean, Readers
  <2> QED BY <1>2, <2>1, <2>8 DEF s
<1>5. CASE f.kind = "string"
  <2>1. w = WriteString(f.name, shape[f]) /\ s = ReadString(r, bytes, f.name)
        /\ shape[f] \in 0 .. kMaxLen
    BY <1>5 DEF WriteField, ReadField, Fits
  <2> QED BY <1>1, <2>1, StringBack
<1>6. CASE f.kind = "strings"
  <2>1. /\ w = Small(f.name, shape[f]) \o Concat(StringParts(f, shape))
        /\ s = ReadStrings(r, bytes, f.name) /\ shape[f] \in 0 .. kMaxCount
    BY <1>6 DEF WriteField, ReadField, Fits, StringParts
  <2> QED BY <2>1, StringsBack
<1>7. CASE f.kind = "optional"
  <2> DEFINE n == shape[f]
             a == Cells(f.name, <<n>>)
             b == IF n = 1 THEN c ELSE <<>>
             flag == ReadNumber(r, bytes, f.name, 1)
  <2>1. /\ w = a \o b /\ n \in {0, 1}
        /\ s = IF flag.number = 0 THEN flag ELSE ReadNumber(flag, bytes, f.name, f.width)
    BY <1>7 DEF WriteField, ReadField, Fits
  <2>2. a \in Seq(Cell) /\ Len(a) = 1 /\ a[1].value = n /\ Named(a, f.name)
    BY <1>1, <2>1, FlagFacts DEF Named
  <2>3. b \in Seq(Cell)
    BY <1>2
  <2> HIDE DEF c, a, b, n
  <2>4. At(bytes, pos, a) /\ At(bytes, pos + 1, b) /\ Len(a \o b) = 1 + Len(b)
    BY <2>1, <2>2, <2>3, AtJoin, AtEnd
  <2>5. flag \in Readers(Len(bytes)) /\ Clean(flag, pos + 1) /\ flag.number = NumberOf(bytes, pos, 1)
    BY <2>2, <2>4, NumberBack
  <2>6. NumberOf(bytes, pos, 1) = n
    <3>1. bytes[pos + 1] = a[1]
      BY <2>2, <2>4 DEF At
    <3> QED BY <2>2, <3>1 DEF NumberOf
  <2> HIDE DEF flag, s
  <2>7. CASE n = 0
    <3>1. s = flag /\ Len(b) = 0
      BY <2>1, <2>5, <2>6, <2>7 DEF b
    <3> QED BY <2>1, <2>4, <2>5, <3>1 DEF s
  <2>8. CASE n = 1
    <3>1. s = ReadNumber(flag, bytes, f.name, f.width) /\ b = c
      BY <2>1, <2>5, <2>6, <2>8 DEF b
    <3>2. pos + 1 \in Nat /\ pos + (1 + Len(c)) = (pos + 1) + Len(c)
      BY <1>2
    <3>3. Clean(s, (pos + 1) + Len(c))
      BY <1>2, <2>4, <2>5, <3>1, <3>2, NumberBack
    <3> QED BY <2>1, <2>4, <3>1, <3>2, <3>3 DEF s
  <2> QED BY <2>1, <2>7, <2>8
<1> QED
  BY <1>1, <1>3, <1>4, <1>5, <1>6, <1>7 DEF PlainKinds

LEMMA FieldsBack ==
  ASSUME NEW bytes \in Seq(Cell), NEW q \in Nat, NEW r \in Readers(Len(bytes)), Clean(r, q),
         NEW fields \in Seq(PlainField), NEW shape,
         \A i \in 1 .. Len(fields) : Fits(fields[i], shape),
         At(bytes, q, WriteFields(fields, shape))
  PROVE  Clean(ReadFields(fields, bytes, r), q + Len(WriteFields(fields, shape)))
<1> DEFINE n == Len(fields)
           P == Parts(fields, shape)
           u == FieldsUpto(fields, bytes, r)
           I == {i \in 0 .. n : Clean(u[i], q + Offset(P, i))}
<1>1. n \in Nat
  OBVIOUS
<1>2. /\ P \in Seq(Seq(Cell)) /\ Len(P) = n /\ WriteFields(fields, shape) = Concat(P)
      /\ \A i \in 1 .. n : P[i] = WriteField(fields[i], shape)
  BY PartsFacts
<1>3. Offset(P, 0) = 0 /\ Offset(P, n) = Len(Concat(P))
  BY <1>2, ConcatEnds
<1>4. /\ u[0] = r /\ \A i \in 1 .. n : u[i] = ReadField(fields[i], bytes, u[i - 1])
      /\ \A i \in 0 .. n : u[i] \in Readers(Len(bytes))
  BY FieldsLoop
<1>5. ReadFields(fields, bytes, r) = u[n]
  BY DEF ReadFields
<1>6. \A i \in 1 .. n : fields[i] \in PlainField /\ Fits(fields[i], shape)
  OBVIOUS
<1>7. At(bytes, q, Concat(P))
  BY <1>2
<1> HIDE DEF u, P, n
<1>8. 0 \in I
  BY <1>1, <1>3, <1>4
<1>9. ASSUME NEW i \in 1 .. n, i - 1 \in I
      PROVE  i \in I
  <2> DEFINE o == q + Offset(P, i - 1)
             v == u[i - 1]
             f == fields[i]
  <2>1. o \in Nat /\ At(bytes, o, P[i]) /\ o + Len(P[i]) = q + Offset(P, i)
    BY <1>1, <1>2, <1>7, PartAt
  <2>2. Clean(v, o) /\ v \in Readers(Len(bytes)) /\ i \in 0 .. n
    BY <1>1, <1>4, <1>9
  <2>3. f \in PlainField /\ Fits(f, shape) /\ P[i] = WriteField(f, shape)
    BY <1>2, <1>6
  <2>4. u[i] = ReadField(f, bytes, v)
    BY <1>4
  <2> HIDE DEF o, v, f
  <2>5. Clean(u[i], o + Len(P[i]))
    BY <2>1, <2>2, <2>3, <2>4, FieldBack
  <2> QED BY <2>1, <2>2, <2>5
<1>10. \A i \in 0 .. n : i \in I
  <2> HIDE DEF I
  <2> QED BY <1>1, <1>8, <1>9, UpTo
<1>11. Clean(u[n], q + Offset(P, n))
  BY <1>1, <1>10
<1> QED
  BY <1>2, <1>3, <1>5, <1>11

LEMMA OverridesBack ==
  ASSUME NEW bytes \in Seq(Cell), NEW pos \in Nat, NEW r \in Readers(Len(bytes)), Clean(r, pos),
         NEW f \in OverridesField, NEW shape, FitsItem(f, shape),
         At(bytes, pos, WriteItem(f, shape))
  PROVE  Clean(ReadItem(f, bytes, r), pos + Len(WriteItem(f, shape)))
<1> DEFINE n == shape[f]
           P == OverrideParts(f, shape)
           one == WriteFields(f.of, shape)
           a == Small(f.name, n)
           b == Concat(P)
           q == pos + Width32
           c == ReadNumber(r, bytes, f.name, Width32)
           u == OverridesUpto(f, bytes, c)
           I == {i \in 0 .. n : Clean(u[i], q + Offset(P, i))}
<1>1. /\ f.kind = "overrides" /\ f.name \in FieldNames /\ f.of \in Seq(PlainField)
      /\ n \in 0 .. kMaxOverrides /\ \A i \in 1 .. Len(f.of) : Fits(f.of[i], shape)
      /\ P \in Seq(Seq(Cell)) /\ Len(P) = n /\ \A i \in 1 .. n : P[i] = one
      /\ WriteItem(f, shape) = a \o b
  BY OverridesWritten
<1>2. n \in Nat /\ ~(n > kMaxOverrides) /\ Width32 \in Nat /\ q \in Nat
  BY <1>1, CodecAssumption
<1>3. a \in Seq(Cell) /\ Len(a) = Width32
  BY <1>1, <1>2, SmallFacts
<1>4. b \in Seq(Cell) /\ Offset(P, 0) = 0 /\ Offset(P, n) = Len(b)
  BY <1>1, ConcatEnds
<1>5. At(bytes, pos, a) /\ At(bytes, q, b)
  <2>1. At(bytes, pos, a \o b)
    BY <1>1
  <2> HIDE DEF a, b
  <2> QED BY <1>3, <1>4, <2>1, AtJoin
<1>6. c \in Readers(Len(bytes)) /\ Clean(c, q) /\ c.number = n
  BY <1>1, <1>2, <1>5, SmallBack
<1>7. ReadItem(f, bytes, r) =
        IF c.number > kMaxOverrides THEN RefuseIf(TRUE, c) ELSE u[c.number]
  BY <1>1 DEF ReadItem, ReadOverrides
<1>8. ReadItem(f, bytes, r) = u[n]
  BY <1>2, <1>6, <1>7, Zenon
<1> HIDE DEF c
<1>9. /\ u[0] = c /\ \A i \in 1 .. n : u[i] = ReadFields(f.of, bytes, u[i - 1])
      /\ \A i \in 0 .. n : u[i] \in Readers(Len(bytes))
  BY <1>1, <1>6, OverridesLoop
<1> HIDE DEF u, P, a, b, q, n, one
<1>10. 0 \in I
  BY <1>2, <1>4, <1>6, <1>9
<1>11. ASSUME NEW i \in 1 .. n, i - 1 \in I
       PROVE  i \in I
  <2> DEFINE o == q + Offset(P, i - 1)
             v == u[i - 1]
  <2>1. o \in Nat /\ At(bytes, o, P[i]) /\ o + Len(P[i]) = q + Offset(P, i)
    BY <1>1, <1>2, <1>5, PartAt DEF b
  <2>2. Clean(v, o) /\ v \in Readers(Len(bytes)) /\ i \in 0 .. n
    BY <1>2, <1>9, <1>11
  <2>3. u[i] = ReadFields(f.of, bytes, v) /\ P[i] = WriteFields(f.of, shape)
    BY <1>1, <1>9 DEF one
  <2> HIDE DEF o, v
  <2>4. Clean(u[i], o + Len(P[i]))
    BY <1>1, <2>1, <2>2, <2>3, FieldsBack
  <2> QED BY <2>1, <2>2, <2>4
<1>12. \A i \in 0 .. n : i \in I
  <2> HIDE DEF I
  <2> QED BY <1>2, <1>10, <1>11, UpTo
<1>13. Clean(u[n], q + Len(b))
  BY <1>2, <1>4, <1>12
<1>14. q + Len(b) = pos + Len(a \o b)
  BY <1>2, <1>3, <1>4, AtEnd DEF q
<1> QED
  BY <1>1, <1>8, <1>13, <1>14

LEMMA ItemBack ==
  ASSUME NEW bytes \in Seq(Cell), NEW pos \in Nat, NEW r \in Readers(Len(bytes)), Clean(r, pos),
         NEW f \in Item, NEW shape, FitsItem(f, shape), At(bytes, pos, WriteItem(f, shape))
  PROVE  Clean(ReadItem(f, bytes, r), pos + Len(WriteItem(f, shape)))
<1>1. CASE f \in OverridesField
  BY <1>1, OverridesBack
<1>2. CASE f \in PlainField
  <2>1. f.kind # "overrides"
    BY <1>2, FieldParts DEF PlainKinds
  <2>2. /\ Fits(f, shape) /\ WriteItem(f, shape) = WriteField(f, shape)
        /\ ReadItem(f, bytes, r) = ReadField(f, bytes, r)
    BY <2>1 DEF FitsItem, WriteItem, ReadItem
  <2> QED BY <1>2, <2>2, FieldBack
<1> QED
  BY <1>1, <1>2 DEF Item

-----------------------------------------------------------------------------
(* What is read of a buffer that was cut: the same as of the whole buffer, or *)
(* the reader has failed.                                                     *)

Prefix(short, long) ==
  Len(short) <= Len(long) /\ \A i \in 1 .. Len(short) : short[i] = long[i]

SameOrFailed(s, t) == s.failed \/ s = t

LEMMA ReadersGrow ==
  ASSUME NEW m \in Nat, NEW n \in Nat, m <= n, NEW r \in Readers(m)
  PROVE  r \in Readers(n)
BY DEF Readers

LEMMA AdvanceCut ==
  ASSUME NEW short \in Seq(Cell), NEW long \in Seq(Cell), Prefix(short, long), NEW name,
         NEW r \in Readers(Len(short)), NEW n \in Nat, r.pos + n <= Len(short)
  PROVE  Advance(r, short, name, n) = Advance(r, long, name, n)
<1> DEFINE b(bytes) == \E i \in r.pos + 1 .. r.pos + n : i \in DOMAIN bytes /\ bytes[i].name # name
<1>1. r.pos \in Nat /\ Len(short) <= Len(long)
  BY ReaderParts DEF Prefix
<1>2. \A i \in r.pos + 1 .. r.pos + n :
        i \in DOMAIN short /\ i \in DOMAIN long /\ short[i] = long[i]
  BY <1>1 DEF Prefix
<1>3. b(short) <=> b(long)
  BY <1>2
<1>4. Advance(r, short, name, n) = [r EXCEPT !.pos = r.pos + n, !.misread = r.misread \/ b(short)]
  BY DEF Advance
<1>5. Advance(r, long, name, n) = [r EXCEPT !.pos = r.pos + n, !.misread = r.misread \/ b(long)]
  BY DEF Advance
<1> HIDE DEF b
<1>6. (r.misread \/ b(short)) = (r.misread \/ b(long))
  BY <1>3
<1> QED
  BY <1>4, <1>5, <1>6

LEMMA NumberCut ==
  ASSUME NEW short \in Seq(Cell), NEW long \in Seq(Cell), Prefix(short, long), NEW name,
         NEW width \in Nat, NEW r \in Readers(Len(short)), ~r.failed
  PROVE  SameOrFailed(ReadNumber(r, short, name, width), ReadNumber(r, long, name, width))
<1>1. r.pos \in Nat /\ r.pos <= Len(short) /\ Len(short) <= Len(long)
  BY ReaderParts DEF Prefix
<1>2. CASE width <= Len(short) - r.pos
  <2>1. Taken(r, short, width) = width /\ Taken(r, long, width) = width
    BY <1>1, <1>2 DEF Taken
  <2>2. \A i \in r.pos + 1 .. r.pos + width : short[i] = long[i]
    BY <1>1, <1>2 DEF Prefix
  <2>3. NumberOf(short, r.pos, width) = NumberOf(long, r.pos, width)
    <3>1. width # 0 => short[r.pos + 1] = long[r.pos + 1]
      BY <1>1, <2>2
    <3>2. \A i \in r.pos + 2 .. r.pos + width : short[i] = long[i]
      BY <1>1, <2>2
    <3> QED BY <3>1, <3>2 DEF NumberOf
  <2>4. Advance(r, short, name, width) = Advance(r, long, name, width)
    BY <1>1, <1>2, AdvanceCut
  <2>5. \A bytes : ReadNumber(r, bytes, name, width) =
                     LET n == Taken(r, bytes, width)
                     IN Ended(Advance(r, bytes, name, n), n < width, NumberOf(bytes, r.pos, n))
    BY DEF ReadNumber, Taken, Ended
  <2>6. ReadNumber(r, short, name, width) = ReadNumber(r, long, name, width)
    BY <2>1, <2>3, <2>4, <2>5, Zenon
  <2> QED BY <2>6 DEF SameOrFailed
<1>3. CASE ~(width <= Len(short) - r.pos)
  <2>1. Taken(r, short, width) < width
    BY <1>1, <1>3 DEF Taken
  <2>2. ReadNumber(r, short, name, width).failed = (Taken(r, short, width) < width)
    BY NumberRead
  <2> QED BY <2>1, <2>2 DEF SameOrFailed
<1> QED
  BY <1>2, <1>3

LEMMA StringCut ==
  ASSUME NEW short \in Seq(Cell), NEW long \in Seq(Cell), Prefix(short, long), NEW name,
         NEW r \in Readers(Len(short)), ~r.failed
  PROVE  SameOrFailed(ReadString(r, short, name), ReadString(r, long, name))
<1> DEFINE l == ReadNumber(r, short, name, Width32)
           k == ReadNumber(r, long, name, Width32)
           Then(bytes, x) == IF x.failed \/ x.number > kMaxLen THEN Fail(x) ELSE Need(x, bytes, x.number)
           s == Then(short, l)
<1>1. Len(short) \in Nat /\ Len(long) \in Nat /\ Len(short) <= Len(long) /\ Width32 \in Nat
  BY CodecAssumption DEF Prefix
<1>2. l \in Readers(Len(short)) /\ SameOrFailed(l, k)
  BY <1>1, NumberType, NumberCut
<1>3. /\ ReadString(r, short, name) = IF s.failed THEN s ELSE Advance(s, short, name, l.number)
      /\ ReadString(r, long, name) =
           IF Then(long, k).failed THEN Then(long, k) ELSE Advance(Then(long, k), long, name, k.number)
  BY DEF ReadString
<1> HIDE DEF l, k
<1>4. Fail(l).failed
  BY <1>1, <1>2, FailType
<1>5. l.pos \in Nat /\ l.number \in Nat
  BY <1>1, <1>2, ReaderParts
<1>6. CASE s.failed
  BY <1>3, <1>6 DEF SameOrFailed
<1>7. CASE ~s.failed
  <2>1. ~l.failed /\ ~(l.number > kMaxLen) /\ l.pos + l.number <= Len(short) /\ s = l
    BY <1>1, <1>4, <1>5, <1>7 DEF Need
  <2>2. k = l
    BY <1>2, <2>1 DEF SameOrFailed
  <2>3. Then(long, k) = l
    BY <1>1, <1>5, <2>1, <2>2 DEF Need
  <2>4. Advance(l, short, name, l.number) = Advance(l, long, name, l.number)
    BY <1>2, <1>5, <2>1, AdvanceCut
  <2> HIDE DEF s, Then
  <2> QED BY <1>3, <2>1, <2>2, <2>3, <2>4 DEF SameOrFailed
<1> QED
  BY <1>6, <1>7

LEMMA FailedString ==
  ASSUME NEW n \in Nat, NEW r \in Readers(n), r.failed, NEW bytes, NEW name
  PROVE  ReadString(r, bytes, name).failed
<1>1. ReadNumber(r, bytes, name, Width32) = Fail(r)
  BY DEF ReadNumber
<1>2. Fail(r).failed /\ Fail(Fail(r)).failed
  BY FailType
<1> HIDE DEF Fail
<1> QED
  BY <1>1, <1>2 DEF ReadString

LEMMA StringsCut ==
  ASSUME NEW short \in Seq(Cell), NEW long \in Seq(Cell), Prefix(short, long), NEW name,
         NEW r \in Readers(Len(short)), ~r.failed
  PROVE  SameOrFailed(ReadStrings(r, short, name), ReadStrings(r, long, name))
<1> DEFINE m == Len(short)
           c == ReadNumber(r, short, name, Width32)
           d == ReadNumber(r, long, name, Width32)
           u == StringsUpto(c, short, name)
           v == StringsUpto(c, long, name)
           n == c.number
           I == {i \in 0 .. n : SameOrFailed(u[i], v[i])}
<1>1. m \in Nat /\ Len(long) \in Nat /\ m <= Len(long) /\ Width32 \in Nat
  BY CodecAssumption DEF Prefix
<1>2. c \in Readers(m) /\ SameOrFailed(c, d)
  BY <1>1, NumberType, NumberCut
<1>3. /\ ReadStrings(r, short, name) = IF c.failed \/ n > kMaxCount THEN Fail(c) ELSE u[n]
      /\ c = d => ReadStrings(r, long, name) = IF c.failed \/ n > kMaxCount THEN Fail(c) ELSE v[n]
  BY DEF ReadStrings
<1> HIDE DEF c, d
<1>4. Fail(c).failed
  BY <1>1, <1>2, FailType
<1>5. CASE c.failed \/ n > kMaxCount
  BY <1>3, <1>4, <1>5 DEF SameOrFailed
<1>6. CASE ~(c.failed \/ n > kMaxCount)
  <2>1. c = d
    BY <1>2, <1>6 DEF SameOrFailed
  <2>2. n \in Nat /\ c \in Readers(Len(long))
    BY <1>1, <1>2, ReaderParts, ReadersGrow
  <2>3. /\ u[0] = c /\ \A i \in 1 .. n : u[i] = ReadString(u[i - 1], short, name)
        /\ \A i \in 0 .. n : u[i] \in Readers(m)
    BY <1>2, StringsLoop
  <2>4. v[0] = c /\ \A i \in 1 .. n : v[i] = ReadString(v[i - 1], long, name)
    BY <2>2, StringsLoop
  <2> HIDE DEF u, v, n
  <2>5. 0 \in I
    BY <2>2, <2>3, <2>4 DEF SameOrFailed
  <2>6. ASSUME NEW i \in 1 .. n, i - 1 \in I
        PROVE  i \in I
    <3> DEFINE x == u[i - 1]
               y == v[i - 1]
    <3>1. SameOrFailed(x, y) /\ x \in Readers(m) /\ i \in 0 .. n
      BY <2>2, <2>3, <2>6
    <3>2. u[i] = ReadString(x, short, name) /\ v[i] = ReadString(y, long, name)
      BY <2>3, <2>4
    <3> HIDE DEF x, y
    <3>3. CASE x.failed
      <4>1. ReadString(x, short, name).failed
        BY <1>1, <3>1, <3>3, FailedString
      <4> QED BY <3>1, <3>2, <4>1 DEF SameOrFailed
    <3>4. CASE ~x.failed
      <4>1. x = y
        BY <3>1, <3>4 DEF SameOrFailed
      <4>2. SameOrFailed(ReadString(x, short, name), ReadString(x, long, name))
        BY <3>1, <3>4, StringCut
      <4> QED BY <3>1, <3>2, <4>1, <4>2
    <3> QED BY <3>3, <3>4
  <2>7. \A i \in 0 .. n : i \in I
    <3> HIDE DEF I
    <3> QED BY <2>2, <2>5, <2>6, UpTo
  <2>8. SameOrFailed(u[n], v[n])
    BY <2>2, <2>7
  <2> QED BY <1>3, <1>6, <2>1, <2>8
<1> QED
  BY <1>5, <1>6

LEMMA FieldCut ==
  ASSUME NEW short \in Seq(Cell), NEW long \in Seq(Cell), Prefix(short, long),
         NEW f \in PlainField, NEW r \in Readers(Len(short)), ~r.failed
  PROVE  SameOrFailed(ReadField(f, short, r), ReadField(f, long, r))
<1> DEFINE m == Len(short)
<1>1. f.kind \in PlainKinds /\ f.width \in Nat
  BY FieldParts
<1>2. CASE f.kind = "number"
  <2>1. \A bytes : ReadField(f, bytes, r) = ReadNumber(r, bytes, f.name, f.width)
    BY <1>2 DEF ReadField
  <2> QED BY <1>1, <2>1, NumberCut
<1>3. CASE f.kind = "enum"
  <2> DEFINE e == ReadNumber(r, short, f.name, 1)
             g == ReadNumber(r, long, f.name, 1)
  <2>1. /\ ReadField(f, short, r) = RefuseIf(e.number > LastStatus, e)
        /\ ReadField(f, long, r) = RefuseIf(g.number > LastStatus, g)
    BY <1>3 DEF ReadField, ReadEnum
  <2>2. e \in Readers(m) /\ SameOrFailed(e, g)
    BY NumberType, NumberCut
  <2> HIDE DEF e, g
  <2>3. RefuseIf(e.number > LastStatus, e).failed = e.failed
    BY <2>2 DEF RefuseIf, Readers
  <2> QED BY <2>1, <2>2, <2>3 DEF SameOrFailed
<1>4. CASE f.kind = "string"
  <2>1. \A bytes : ReadField(f, bytes, r) = ReadString(r, bytes, f.name)
    BY <1>4 DEF ReadField
  <2> QED BY <2>1, StringCut
<1>5. CASE f.kind = "strings"
  <2>1. \A bytes : ReadField(f, bytes, r) = ReadStrings(r, bytes, f.name)
    BY <1>5 DEF ReadField
  <2> QED BY <2>1, StringsCut
<1>6. CASE f.kind = "optional"
  <2> DEFINE x == ReadNumber(r, short, f.name, 1)
             y == ReadNumber(r, long, f.name, 1)
  <2>1. /\ ReadField(f, short, r) = IF x.number = 0 THEN x ELSE ReadNumber(x, short, f.name, f.width)
        /\ ReadField(f, long, r) = IF y.number = 0 THEN y ELSE ReadNumber(y, long, f.name, f.width)
    BY <1>6 DEF ReadField
  <2>2. x \in Readers(m) /\ SameOrFailed(x, y)
    BY NumberType, NumberCut
  <2> HIDE DEF x, y
  <2>3. CASE x.failed
    <3>1. ReadNumber(x, short, f.name, f.width).failed
      <4>1. m \in Nat
        OBVIOUS
      <4> QED BY <2>2, <2>3, <4>1, FailType DEF ReadNumber
    <3> QED BY <2>1, <2>3, <3>1 DEF SameOrFailed
  <2>4. CASE ~x.failed
    <3>1. x = y
      BY <2>2, <2>4 DEF SameOrFailed
    <3>2. SameOrFailed(ReadNumber(x, short, f.name, f.width), ReadNumber(x, long, f.name, f.width))
      BY <1>1, <2>2, <2>4, NumberCut
    <3> QED BY <2>1, <3>1, <3>2 DEF SameOrFailed
  <2> QED BY <2>3, <2>4
<1> QED
  BY <1>1, <1>2, <1>3, <1>4, <1>5, <1>6 DEF PlainKinds

\* One reader of the cut buffer and one of the whole, through a field.
LEMMA FieldPair ==
  ASSUME NEW short \in Seq(Cell), NEW long \in Seq(Cell), Prefix(short, long),
         NEW f \in PlainField, NEW x \in Readers(Len(short)), NEW y, SameOrFailed(x, y)
  PROVE  SameOrFailed(ReadField(f, short, x), ReadField(f, long, y))
<1>1. CASE x.failed
  <2>1. f \in Item /\ f.kind # "overrides" /\ Len(short) \in Nat
    BY FieldParts DEF Item, PlainKinds
  <2>2. ReadField(f, short, x) = Fail(x)
    BY <1>1, <2>1, FailedRead DEF ReadItem
  <2> QED BY <2>1, <2>2, FailType DEF SameOrFailed
<1>2. CASE ~x.failed
  <2>1. x = y
    BY <1>2 DEF SameOrFailed
  <2> QED BY <1>2, <2>1, FieldCut
<1> QED
  BY <1>1, <1>2

LEMMA FieldsPair ==
  ASSUME NEW short \in Seq(Cell), NEW long \in Seq(Cell), Prefix(short, long),
         NEW fields \in Seq(PlainField), NEW x \in Readers(Len(short)),
         NEW y \in Readers(Len(long)), SameOrFailed(x, y)
  PROVE  SameOrFailed(ReadFields(fields, short, x), ReadFields(fields, long, y))
<1> DEFINE n == Len(fields)
           u == FieldsUpto(fields, short, x)
           v == FieldsUpto(fields, long, y)
           I == {i \in 0 .. n : SameOrFailed(u[i], v[i])}
<1>1. n \in Nat /\ \A i \in 1 .. n : fields[i] \in PlainField
  OBVIOUS
<1>2. /\ u[0] = x /\ \A i \in 1 .. n : u[i] = ReadField(fields[i], short, u[i - 1])
      /\ \A i \in 0 .. n : u[i] \in Readers(Len(short))
  BY FieldsLoop
<1>3. v[0] = y /\ \A i \in 1 .. n : v[i] = ReadField(fields[i], long, v[i - 1])
  BY FieldsLoop
<1>4. ReadFields(fields, short, x) = u[n] /\ ReadFields(fields, long, y) = v[n]
  BY DEF ReadFields
<1> HIDE DEF u, v, n
<1>5. 0 \in I
  BY <1>1, <1>2, <1>3
<1>6. ASSUME NEW i \in 1 .. n, i - 1 \in I
      PROVE  i \in I
  <2> DEFINE a == u[i - 1]
             b == v[i - 1]
             f == fields[i]
  <2>1. SameOrFailed(a, b) /\ a \in Readers(Len(short)) /\ i \in 0 .. n /\ f \in PlainField
    BY <1>1, <1>2, <1>6
  <2>2. u[i] = ReadField(f, short, a) /\ v[i] = ReadField(f, long, b)
    BY <1>2, <1>3
  <2> HIDE DEF a, b, f
  <2>3. SameOrFailed(ReadField(f, short, a), ReadField(f, long, b))
    BY <2>1, FieldPair
  <2> QED BY <2>1, <2>2, <2>3
<1>7. \A i \in 0 .. n : i \in I
  <2> HIDE DEF I
  <2> QED BY <1>1, <1>5, <1>6, UpTo
<1>8. SameOrFailed(u[n], v[n])
  BY <1>1, <1>7
<1> QED
  BY <1>4, <1>8

LEMMA FailedFields ==
  ASSUME NEW bytes \in Seq(Cell), NEW fields \in Seq(PlainField), NEW r \in Readers(Len(bytes)),
         r.failed
  PROVE  ReadFields(fields, bytes, r).failed
<1> DEFINE n == Len(fields)
           u == FieldsUpto(fields, bytes, r)
           I == {i \in 0 .. n : u[i].failed}
<1>1. n \in Nat /\ Len(bytes) \in Nat /\ \A i \in 1 .. n : fields[i] \in PlainField
  OBVIOUS
<1>2. /\ u[0] = r /\ \A i \in 1 .. n : u[i] = ReadField(fields[i], bytes, u[i - 1])
      /\ \A i \in 0 .. n : u[i] \in Readers(Len(bytes))
  BY FieldsLoop
<1>3. ReadFields(fields, bytes, r) = u[n]
  BY DEF ReadFields
<1> HIDE DEF u, n
<1>4. 0 \in I
  BY <1>1, <1>2
<1>5. ASSUME NEW i \in 1 .. n, i - 1 \in I
      PROVE  i \in I
  <2> DEFINE a == u[i - 1]
             f == fields[i]
  <2>1. a.failed /\ a \in Readers(Len(bytes)) /\ i \in 0 .. n /\ f \in PlainField
    BY <1>1, <1>2, <1>5
  <2>2. u[i] = ReadField(f, bytes, a)
    BY <1>2
  <2> HIDE DEF a, f
  <2>3. f \in Item /\ f.kind # "overrides"
    BY <2>1, FieldParts DEF Item, PlainKinds
  <2>4. u[i] = Fail(a)
    BY <2>1, <2>2, <2>3, FailedRead DEF ReadItem
  <2> QED BY <1>1, <2>1, <2>4, FailType
<1>6. \A i \in 0 .. n : i \in I
  <2> HIDE DEF I
  <2> QED BY <1>1, <1>4, <1>5, UpTo
<1> QED
  BY <1>1, <1>3, <1>6

LEMMA OverridesCut ==
  ASSUME NEW short \in Seq(Cell), NEW long \in Seq(Cell), Prefix(short, long),
         NEW f \in OverridesField, NEW r \in Readers(Len(short)), ~r.failed
  PROVE  SameOrFailed(ReadOverrides(f, short, r), ReadOverrides(f, long, r))
<1> DEFINE m == Len(short)
           c == ReadNumber(r, short, f.name, Width32)
           d == ReadNumber(r, long, f.name, Width32)
           u == OverridesUpto(f, short, c)
           v == OverridesUpto(f, long, c)
           n == c.number
<1>1. /\ m \in Nat /\ Len(long) \in Nat /\ m <= Len(long) /\ Width32 \in Nat
      /\ f.of \in Seq(PlainField)
  BY CodecAssumption DEF Prefix, OverridesField
<1>2. c \in Readers(m) /\ SameOrFailed(c, d)
  BY <1>1, NumberType, NumberCut
<1>3. /\ ReadOverrides(f, short, r) = IF n > kMaxOverrides THEN RefuseIf(TRUE, c) ELSE u[n]
      /\ c = d => ReadOverrides(f, long, r) = IF n > kMaxOverrides THEN RefuseIf(TRUE, c) ELSE v[n]
  BY DEF ReadOverrides
<1> HIDE DEF c, d
<1>4. n \in Nat /\ c \in Readers(Len(long)) /\ RefuseIf(TRUE, c).failed = c.failed
  BY <1>1, <1>2, ReaderParts, ReadersGrow DEF RefuseIf, Readers
<1>5. /\ u[0] = c /\ \A i \in 1 .. n : u[i] = ReadFields(f.of, short, u[i - 1])
      /\ \A i \in 0 .. n : u[i] \in Readers(m)
  BY <1>1, <1>2, OverridesLoop
<1>6. /\ v[0] = c /\ \A i \in 1 .. n : v[i] = ReadFields(f.of, long, v[i - 1])
      /\ \A i \in 0 .. n : v[i] \in Readers(Len(long))
  BY <1>1, <1>4, OverridesLoop
<1> HIDE DEF u, v, n, m
<1>7. CASE c.failed
  <2> DEFINE I == {i \in 0 .. n : u[i].failed}
  <2>1. 0 \in I
    BY <1>4, <1>5, <1>7
  <2>2. ASSUME NEW i \in 1 .. n, i - 1 \in I
        PROVE  i \in I
    <3> DEFINE x == u[i - 1]
    <3>1. x.failed /\ x \in Readers(m) /\ i \in 0 .. n /\ u[i] = ReadFields(f.of, short, x)
      BY <1>4, <1>5, <2>2
    <3> HIDE DEF x
    <3> QED BY <1>1, <3>1, FailedFields DEF m
  <2>3. \A i \in 0 .. n : i \in I
    <3> HIDE DEF I
    <3> QED BY <1>4, <2>1, <2>2, UpTo
  <2>4. u[n].failed
    BY <1>4, <2>3
  <2> QED BY <1>3, <1>4, <1>7, <2>4 DEF SameOrFailed
<1>8. CASE ~c.failed
  <2> DEFINE I == {i \in 0 .. n : SameOrFailed(u[i], v[i])}
  <2>1. 0 \in I
    BY <1>4, <1>5, <1>6 DEF SameOrFailed
  <2>2. ASSUME NEW i \in 1 .. n, i - 1 \in I
        PROVE  i \in I
    <3> DEFINE x == u[i - 1]
               y == v[i - 1]
    <3>1. SameOrFailed(x, y) /\ x \in Readers(m) /\ y \in Readers(Len(long)) /\ i \in 0 .. n
      BY <1>4, <1>5, <1>6, <2>2
    <3>2. u[i] = ReadFields(f.of, short, x) /\ v[i] = ReadFields(f.of, long, y)
      BY <1>5, <1>6
    <3> HIDE DEF x, y
    <3>3. SameOrFailed(ReadFields(f.of, short, x), ReadFields(f.of, long, y))
      BY <1>1, <3>1, FieldsPair DEF m
    <3> QED BY <3>1, <3>2, <3>3
  <2>3. \A i \in 0 .. n : i \in I
    <3> HIDE DEF I
    <3> QED BY <1>4, <2>1, <2>2, UpTo
  <2>4. SameOrFailed(u[n], v[n]) /\ c = d
    BY <1>2, <1>4, <1>8, <2>3 DEF SameOrFailed
  <2>5. CASE n > kMaxOverrides
    BY <1>3, <2>4, <2>5 DEF SameOrFailed
  <2>6. CASE ~(n > kMaxOverrides)
    BY <1>3, <2>4, <2>6
  <2> QED BY <2>5, <2>6
<1> QED
  BY <1>7, <1>8

LEMMA ItemCut ==
  ASSUME NEW short \in Seq(Cell), NEW long \in Seq(Cell), Prefix(short, long),
         NEW f \in Item, NEW r \in Readers(Len(short)), ~r.failed
  PROVE  SameOrFailed(ReadItem(f, short, r), ReadItem(f, long, r))
<1>1. CASE f \in PlainField
  <2>1. f.kind # "overrides"
    BY <1>1, FieldParts DEF PlainKinds
  <2> QED BY <1>1, <2>1, FieldCut DEF ReadItem
<1>2. CASE f \in OverridesField
  <2>1. f.kind = "overrides"
    BY <1>2 DEF OverridesField
  <2> QED BY <1>2, <2>1, OverridesCut DEF ReadItem
<1> QED
  BY <1>1, <1>2 DEF Item

-----------------------------------------------------------------------------
(* The decoder, field by field *)

List(s) == Structures[s].written

\* The bytes of the structure under way and where its fields end.
Whole == Write(List(subject), ShapeOf(List(subject), full))

Ends(i) == Offset(ItemParts(List(subject), ShapeOf(List(subject), full)), i)

\* Between two decoders nothing is under way.
Idle == subject = 0 => damage = "none" /\ field = 1 /\ reader = Fresh /\ buffer = <<>>

\* What a decoder has read of an undamaged buffer is what it should have.
WholeRead ==
  subject # 0 /\ damage = "none" => buffer = Whole /\ Clean(reader, Ends(field - 1))

\* Of a buffer that was cut it has read the same, or it has noticed.
CutRead ==
  damage = "cut" =>
    /\ subject # 0 /\ Len(buffer) < Len(Whole) /\ Prefix(buffer, Whole)
    /\ reader.failed \/ Clean(reader, Ends(field - 1))

\* The inductive invariant.
CodecInv ==
  /\ subject \in {0} \cup DOMAIN Structures
  /\ damage \in {"none", "cut", "altered"}
  /\ field \in Nat \ {0} /\ (subject # 0 => field <= Len(List(subject)) + 1)
  /\ buffer \in Seq(Cell) /\ reader \in Readers(Len(buffer))
  /\ Idle /\ WholeRead /\ CutRead

\* The structure under way: its list of fields, its bytes and their places.
LEMMA UnderWay ==
  ASSUME subject \in DOMAIN Structures
  PROVE  LET L == List(subject)
             shape == ShapeOf(L, full)
         IN /\ subject # 0 /\ L \in Seq(Item) /\ Structures[subject].read = L
            /\ Whole \in Seq(Cell) /\ Ends(0) = 0 /\ Ends(Len(L)) = Len(Whole)
            /\ \A i \in 1 .. Len(L) :
                 /\ L[i] \in Item /\ FitsItem(L[i], shape) /\ Ends(i - 1) \in Nat
                 /\ Ends(i) = Ends(i - 1) + Len(WriteItem(L[i], shape))
                 /\ At(Whole, Ends(i - 1), WriteItem(L[i], shape))
<1> DEFINE L == List(subject)
           shape == ShapeOf(L, full)
           P == ItemParts(L, shape)
<1>1. subject # 0 /\ L \in Seq(Item) /\ Structures[subject].read = L
  <2>1. 0 \notin 1 .. 10
    OBVIOUS
  <2> QED BY <2>1, ListsAgree DEF List
<1> HIDE DEF L
<1>2. /\ P \in Seq(Seq(Cell)) /\ Len(P) = Len(L)
      /\ \A i \in 1 .. Len(L) : P[i] = WriteItem(L[i], shape)
      /\ Write(L, shape) = Concat(P) /\ Write(L, shape) \in Seq(Cell)
  BY <1>1, StructureWritten
<1>3. Whole = Write(L, shape) /\ \A i : Ends(i) = Offset(P, i)
  BY DEF Whole, Ends, L
<1>4. \A i \in 1 .. Len(L) : L[i] \in Item /\ FitsItem(L[i], shape)
  BY <1>1, ShapeFits
<1> HIDE DEF P, shape
<1>5. Offset(P, 0) = 0 /\ Offset(P, Len(L)) = Len(Whole)
  BY <1>2, <1>3, ConcatEnds
<1>6. ASSUME NEW i \in 1 .. Len(L)
      PROVE  /\ Ends(i - 1) \in Nat /\ Ends(i) = Ends(i - 1) + Len(WriteItem(L[i], shape))
             /\ At(Whole, Ends(i - 1), WriteItem(L[i], shape))
  <2>1. i \in 1 .. Len(P) /\ P[i] = WriteItem(L[i], shape)
    BY <1>2
  <2>2. /\ Offset(P, i - 1) \in Nat /\ Offset(P, i) = Offset(P, i - 1) + Len(P[i])
        /\ At(Concat(P), Offset(P, i - 1), P[i])
    BY <1>2, <2>1, ConcatAt
  <2> QED BY <1>2, <1>3, <2>1, <2>2
<1> QED
  BY <1>1, <1>2, <1>3, <1>4, <1>5, <1>6 DEF L, shape

LEMMA InitKeeps == CodecInit => CodecInv
<1> SUFFICES ASSUME CodecInit PROVE CodecInv
  OBVIOUS
<1>1. buffer \in Seq(Cell) /\ Len(buffer) = 0
  BY DEF CodecInit
<1>2. reader \in Readers(Len(buffer))
  BY <1>1 DEF CodecInit, Fresh, Readers
<1> QED
  BY <1>1, <1>2 DEF CodecInit, CodecInv, Idle, WholeRead, CutRead

LEMMA EncodeKeeps ==
  ASSUME CodecInv, NEW s \in DOMAIN Structures, NEW F, Encode(s, F)
  PROVE  CodecInv'
<1>1. /\ subject' = s /\ full' = F /\ damage' = "none" /\ field' = 1 /\ reader' = Fresh
      /\ buffer' = Write(List(s), ShapeOf(List(s), F))
  BY DEF Encode, List
<1>2. List(s) \in Seq(Item) /\ s \in 1 .. 10
  BY ListsAgree DEF List
<1>3. Whole' = buffer'
  BY <1>1 DEF Whole, List
<1>4. buffer' \in Seq(Cell) /\ Ends(0)' = 0
  <2> DEFINE P == ItemParts(List(s), ShapeOf(List(s), F))
  <2>1. P \in Seq(Seq(Cell)) /\ Write(List(s), ShapeOf(List(s), F)) \in Seq(Cell)
    BY <1>2, StructureWritten
  <2>2. Offset(P, 0) = 0
    <3> HIDE DEF P
    <3> QED BY <2>1, ConcatEnds
  <2>3. Ends(0)' = Offset(P, 0)
    BY <1>1 DEF Ends, List
  <2> QED BY <1>1, <2>1, <2>2, <2>3
<1>5. reader' \in Readers(Len(buffer')) /\ Clean(reader', 0)
  BY <1>1, <1>4 DEF Fresh, Readers, Clean
<1>6. field' - 1 = 0
  BY <1>1
<1>7. WholeRead'
  BY <1>3, <1>4, <1>5, <1>6 DEF WholeRead
<1>8. (field <= Len(List(subject)) + 1)'
  BY <1>1, <1>2 DEF List
<1>9. Idle' /\ CutRead'
  BY <1>1, <1>2 DEF Idle, CutRead
<1> QED
  BY <1>1, <1>4, <1>5, <1>7, <1>8, <1>9 DEF CodecInv

\* What a decoder that has not begun yet knows.
LEMMA Begun ==
  ASSUME CodecInv, Damageable
  PROVE  /\ subject \in DOMAIN Structures /\ buffer = Whole /\ Clean(reader, 0) /\ Ends(0) = 0
         /\ field = 1
<1>1. subject \in DOMAIN Structures /\ subject # 0 /\ field = 1 /\ damage = "none"
  BY DEF CodecInv, Damageable
<1>2. field - 1 = 0
  BY <1>1
<1> QED
  BY <1>1, <1>2, UnderWay DEF CodecInv, WholeRead

LEMMA CutKeeps ==
  ASSUME CodecInv, NEW n \in 0 .. Len(buffer) - 1, Cut(n)
  PROVE  CodecInv'
<1>1. /\ Damageable /\ buffer' = SubSeq(buffer, 1, n) /\ damage' = "cut"
      /\ subject' = subject /\ full' = full /\ field' = field /\ reader' = reader
  BY DEF Cut
<1>2. /\ subject \in DOMAIN Structures /\ subject # 0 /\ buffer = Whole /\ Clean(reader, 0)
      /\ Ends(0) = 0 /\ field = 1 /\ buffer \in Seq(Cell)
  BY <1>1, Begun, UnderWay
<1>3. /\ buffer' \in Seq(Cell) /\ Len(buffer') = n /\ n \in Nat /\ n < Len(buffer)
      /\ \A i \in 1 .. n : buffer'[i] = buffer[i]
  BY <1>1, <1>2
<1>4. Whole' = Whole /\ Ends(0)' = Ends(0)
  BY <1>1 DEF Whole, Ends, List
<1>5. Prefix(buffer', Whole') /\ Len(buffer') < Len(Whole')
  BY <1>2, <1>3, <1>4 DEF Prefix
<1>6. reader' \in Readers(Len(buffer'))
  <2>1. reader \in Readers(Len(buffer)) /\ reader.pos = 0
    BY <1>2 DEF CodecInv, Clean
  <2>2. reader \in Readers(n)
    BY <1>3, <2>1 DEF Readers
  <2> QED BY <1>1, <1>3, <2>2
<1>7. field' - 1 = 0
  BY <1>1, <1>2
<1>8. Clean(reader', Ends(field - 1)')
  BY <1>1, <1>2, <1>4, <1>7
<1>9. CutRead'
  BY <1>1, <1>2, <1>5, <1>8 DEF CutRead
<1>10. Idle' /\ WholeRead'
  BY <1>1, <1>2 DEF Idle, WholeRead
<1>11. (field \in Nat \ {0} /\ field <= Len(List(subject)) + 1)'
  BY <1>1, <1>2 DEF CodecInv, List
<1> QED
  BY <1>1, <1>2, <1>3, <1>6, <1>9, <1>10, <1>11 DEF CodecInv

LEMMA AlterKeeps ==
  ASSUME CodecInv, NEW i \in DOMAIN buffer, NEW v \in Alterations, Alter(i, v)
  PROVE  CodecInv'
<1>1. /\ Damageable /\ buffer' = [buffer EXCEPT ![i].value = v] /\ damage' = "altered"
      /\ subject' = subject /\ full' = full /\ field' = field /\ reader' = reader
  BY DEF Alter
<1>2. subject \in DOMAIN Structures /\ subject # 0 /\ buffer \in Seq(Cell) /\ v \in Nat
  BY <1>1, Begun, UnderWay, CodecAssumption DEF CodecInv
<1>3. buffer' \in Seq(Cell) /\ Len(buffer') = Len(buffer)
  <2> DEFINE c == [buffer[i] EXCEPT !.value = v]
  <2>1. buffer[i] \in Cell
    BY <1>2
  <2>2. c \in Cell
    BY <1>2, <2>1 DEF Cell
  <2>3. buffer' = [buffer EXCEPT ![i] = c]
    BY <1>1
  <2> HIDE DEF c
  <2> QED BY <1>2, <2>2, <2>3
<1>4. Idle' /\ WholeRead' /\ CutRead'
  BY <1>1, <1>2 DEF Idle, WholeRead, CutRead
<1>5. (field \in Nat \ {0} /\ field <= Len(List(subject)) + 1)'
  BY <1>1, <1>2 DEF CodecInv, List
<1> QED
  BY <1>1, <1>2, <1>3, <1>4, <1>5 DEF CodecInv

LEMMA ReadKeeps ==
  ASSUME CodecInv, ReadNext
  PROVE  CodecInv' /\ (reader.failed => reader' = Fail(reader))
<1> DEFINE L == List(subject)
           f == L[field]
           shape == ShapeOf(L, full)
<1>1. subject # 0 /\ subject \in DOMAIN Structures
  BY DEF CodecInv, ReadNext
<1>2. L \in Seq(Item) /\ Structures[subject].read = L /\ Whole \in Seq(Cell)
  BY <1>1, UnderWay
<1>3. field \in 1 .. Len(L)
  BY <1>1, <1>2 DEF CodecInv, ReadNext, AllRead
<1>4. /\ f \in Item /\ FitsItem(f, shape) /\ Ends(field - 1) \in Nat
      /\ Ends(field) = Ends(field - 1) + Len(WriteItem(f, shape))
      /\ At(Whole, Ends(field - 1), WriteItem(f, shape))
  BY <1>1, <1>3, UnderWay
<1>5. /\ reader' = ReadItem(f, buffer, reader) /\ field' = field + 1
      /\ subject' = subject /\ full' = full /\ buffer' = buffer /\ damage' = damage
  BY <1>2 DEF ReadNext
<1>6. buffer \in Seq(Cell) /\ reader \in Readers(Len(buffer))
  BY DEF CodecInv
<1> HIDE DEF L, f, shape
<1>7. reader' \in Readers(Len(buffer'))
  BY <1>4, <1>5, <1>6, ItemType
<1>8. reader.failed => reader' = Fail(reader)
  BY <1>4, <1>5, <1>6, FailedRead
<1>9. field' - 1 = field /\ Whole' = Whole /\ \A i : Ends(i)' = Ends(i)
  BY <1>3, <1>5 DEF Whole, Ends, List
<1>10. ASSUME Clean(reader, Ends(field - 1)), NEW bytes \in Seq(Cell), bytes = Whole,
              reader \in Readers(Len(bytes))
       PROVE  Clean(ReadItem(f, bytes, reader), Ends(field))
  BY <1>4, <1>10, ItemBack
<1>11. WholeRead'
  <2> SUFFICES ASSUME damage = "none"
               PROVE  (buffer = Whole /\ Clean(reader, Ends(field - 1)))'
    BY <1>5 DEF WholeRead
  <2>1. buffer = Whole /\ Clean(reader, Ends(field - 1))
    BY <1>1 DEF CodecInv, WholeRead
  <2>2. Clean(reader', Ends(field))
    BY <1>5, <1>6, <1>10, <2>1
  <2> QED BY <1>5, <1>9, <2>1, <2>2
<1>12. CutRead'
  <2> SUFFICES ASSUME damage = "cut"
               PROVE  (/\ subject # 0 /\ Len(buffer) < Len(Whole) /\ Prefix(buffer, Whole)
                       /\ reader.failed \/ Clean(reader, Ends(field - 1)))'
    BY <1>5 DEF CutRead
  <2>1. /\ Len(buffer) < Len(Whole) /\ Prefix(buffer, Whole)
        /\ reader.failed \/ Clean(reader, Ends(field - 1))
    BY DEF CodecInv, CutRead
  <2>2. reader'.failed \/ Clean(reader', Ends(field))
    <3>1. CASE reader.failed
      <4>1. Len(buffer) \in Nat
        BY <1>6
      <4> QED BY <1>6, <1>8, <3>1, <4>1, FailType
    <3>2. CASE ~reader.failed
      <4>1. Clean(reader, Ends(field - 1))
        BY <2>1, <3>2
      <4>2. reader \in Readers(Len(Whole))
        BY <1>2, <1>6, <2>1, ReadersGrow
      <4>3. Clean(ReadItem(f, Whole, reader), Ends(field))
        BY <1>2, <1>10, <4>1, <4>2
      <4>4. SameOrFailed(ReadItem(f, buffer, reader), ReadItem(f, Whole, reader))
        BY <1>2, <1>4, <1>6, <2>1, <3>2, ItemCut
      <4> QED BY <1>5, <4>3, <4>4 DEF SameOrFailed
    <3> QED BY <3>1, <3>2
  <2> QED BY <1>1, <1>5, <1>9, <2>1, <2>2
<1>13. Idle'
  BY <1>1, <1>5 DEF Idle
<1>14. (field \in Nat \ {0} /\ field <= Len(List(subject)) + 1)'
  BY <1>2, <1>3, <1>5 DEF List, L
<1> QED
  BY <1>1, <1>5, <1>6, <1>7, <1>8, <1>11, <1>12, <1>13, <1>14 DEF CodecInv

LEMMA FinishKeeps ==
  ASSUME CodecInv, Finish
  PROVE  CodecInv'
<1>1. /\ subject' = 0 /\ buffer' = <<>> /\ damage' = "none" /\ field' = 1 /\ reader' = Fresh
  BY DEF Finish
<1>2. buffer' \in Seq(Cell) /\ Len(buffer') = 0
  BY <1>1
<1>3. reader' \in Readers(Len(buffer'))
  BY <1>1, <1>2 DEF Fresh, Readers
<1> QED
  BY <1>1, <1>2, <1>3 DEF CodecInv, Idle, WholeRead, CutRead

LEMMA CodecStep == CodecInv /\ [CodecNext]_codecVars => CodecInv'
<1> SUFFICES ASSUME CodecInv, [CodecNext]_codecVars PROVE CodecInv'
  OBVIOUS
<1>1. CASE \E s \in DOMAIN Structures : \E F \in SUBSET Variables(Structures[s].written) : Encode(s, F)
  BY <1>1, EncodeKeeps
<1>2. CASE \E n \in 0 .. Len(buffer) - 1 : Cut(n)
  BY <1>2, CutKeeps
<1>3. CASE \E i \in DOMAIN buffer, v \in Alterations : Alter(i, v)
  BY <1>3, AlterKeeps
<1>4. CASE ReadNext
  BY <1>4, ReadKeeps
<1>5. CASE Finish
  BY <1>5, FinishKeeps
<1>6. CASE UNCHANGED codecVars
  <2>1. /\ subject' = subject /\ full' = full /\ buffer' = buffer /\ damage' = damage
        /\ field' = field /\ reader' = reader
    BY <1>6 DEF codecVars
  <2>2. Whole' = Whole /\ \A i : Ends(i)' = Ends(i)
    BY <2>1 DEF Whole, Ends, List
  <2>3. Idle' /\ WholeRead' /\ CutRead'
    BY <2>1, <2>2 DEF CodecInv, Idle, WholeRead, CutRead
  <2> QED BY <2>1, <2>3 DEF CodecInv, List
<1> QED
  BY <1>1, <1>2, <1>3, <1>4, <1>5, <1>6 DEF CodecNext

LEMMA CodecInvariant == CodecSpec => []CodecInv
BY InitKeeps, CodecStep, PTL DEF CodecSpec

\* No reader ever leaves its buffer (NeverPastEnd), for integers of any width,
\* bounds of any size and bytes altered to anything.
THEOREM NeverPastEndHolds == CodecSpec => []NeverPastEnd
<1>1. CodecInv => NeverPastEnd
  BY DEF CodecInv, NeverPastEnd, Readers
<1> QED
  BY <1>1, CodecInvariant, PTL

\* Every decoder reads exactly what its encoder wrote (RoundTrip), whichever
\* optional fields, strings, lists and overrides are present.
THEOREM RoundTripHolds == CodecSpec => []RoundTrip
<1>1. CodecInv => RoundTrip
  <2> SUFFICES ASSUME CodecInv, damage = "none"
               PROVE  /\ ~reader.failed /\ ~reader.refused /\ ~reader.misread
                      /\ AllRead => reader.pos = Len(buffer)
    BY DEF RoundTrip
  <2>1. CASE subject = 0
    BY <2>1 DEF CodecInv, Idle, Fresh, AllRead
  <2>2. CASE subject # 0
    <3>1. buffer = Whole /\ Clean(reader, Ends(field - 1)) /\ subject \in DOMAIN Structures
      BY <2>2 DEF CodecInv, WholeRead
    <3>2. ASSUME AllRead PROVE reader.pos = Len(buffer)
      <4>1. /\ Structures[subject].read = List(subject) /\ List(subject) \in Seq(Item)
            /\ Ends(Len(List(subject))) = Len(Whole)
        BY <3>1, UnderWay
      <4>2. field - 1 = Len(List(subject))
        BY <2>2, <3>2, <4>1 DEF CodecInv, AllRead
      <4> QED BY <3>1, <4>1, <4>2 DEF Clean
    <3> QED BY <3>1, <3>2 DEF Clean
  <2> QED BY <2>1, <2>2
<1> QED
  BY <1>1, CodecInvariant, PTL

\* A structure that lost any number of bytes is refused (CutRefused).
THEOREM CutRefusedHolds == CodecSpec => []CutRefused
<1>1. CodecInv => CutRefused
  <2> SUFFICES ASSUME CodecInv, damage = "cut", AllRead, ~reader.failed
               PROVE  FALSE
    BY DEF CutRefused
  <2>1. /\ subject # 0 /\ Len(buffer) < Len(Whole) /\ Clean(reader, Ends(field - 1))
        /\ subject \in DOMAIN Structures
    BY DEF CodecInv, CutRead
  <2>2. /\ Structures[subject].read = List(subject) /\ List(subject) \in Seq(Item)
        /\ Ends(Len(List(subject))) = Len(Whole) /\ Whole \in Seq(Cell)
    BY <2>1, UnderWay
  <2>3. field - 1 = Len(List(subject))
    BY <2>1, <2>2 DEF CodecInv, AllRead
  <2>4. reader.pos = Len(Whole)
    BY <2>1, <2>2, <2>3 DEF Clean
  <2>5. buffer \in Seq(Cell) /\ reader \in Readers(Len(buffer))
    BY DEF CodecInv
  <2>6. reader.pos <= Len(buffer)
    BY <2>5, ReaderParts
  <2> QED BY <2>1, <2>2, <2>4, <2>5, <2>6
<1> QED
  BY <1>1, CodecInvariant, PTL

\* A reader that has failed stays where it is and reads zeros (FailureFinal).
THEOREM FailureFinalHolds == CodecSpec => FailureFinal
<1> DEFINE Final == reader.failed /\ UNCHANGED subject =>
                      reader'.failed /\ reader'.pos = reader.pos /\ reader'.number = 0
<1>1. ASSUME CodecInv, [CodecNext]_codecVars
      PROVE  [Final]_reader
  <2>1. ASSUME NEW s \in DOMAIN Structures, NEW F, Encode(s, F) PROVE ~UNCHANGED subject
    <3>1. s \in 1 .. 10
      BY ListsAgree
    <3> QED BY <2>1, <3>1 DEF Encode
  <2>2. CASE ReadNext
    <3>1. buffer \in Seq(Cell) /\ reader \in Readers(Len(buffer)) /\ Len(buffer) \in Nat
      BY <1>1 DEF CodecInv
    <3>2. reader.failed => reader' = Fail(reader)
      BY <1>1, <2>2, ReadKeeps
    <3> QED BY <3>1, <3>2, FailType
  <2>3. ASSUME Finish PROVE ~UNCHANGED subject
    BY <2>3 DEF Finish, AllRead
  <2>4. ASSUME NEW n, Cut(n) PROVE UNCHANGED reader
    BY <2>4 DEF Cut
  <2>5. ASSUME NEW i, NEW v, Alter(i, v) PROVE UNCHANGED reader
    BY <2>5 DEF Alter
  <2> QED
    BY <1>1, <2>1, <2>2, <2>3, <2>4, <2>5 DEF CodecNext, codecVars
<1> QED
  BY <1>1, CodecInvariant, PTL DEF CodecSpec, FailureFinal
================================================================================
