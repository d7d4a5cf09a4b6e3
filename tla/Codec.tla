--------------------------------- MODULE Codec ---------------------------------
(****************************************************************************)
(* The field-by-field codecs (codec.cpp, protocol.cpp) over the writer and  *)
(* the reader of serialize.hpp.  Encoders and decoders are separate code;   *)
(* for each structure there is what the encoder writes, field by field, and *)
(* what the decoder reads, and the reader's rules for the end of the        *)
(* buffer, for lengths and for counts.                                      *)
(*                                                                          *)
(* A byte is a value and the field it was written for.  Integers are as     *)
(* wide as the constants say, lengths and counts fit in one byte.           *)
(****************************************************************************)
EXTENDS Integers, Sequences

CONSTANTS
  Width32, Width64,   \* bytes of an integer
  kResourceCount,     \* dimensions of a resource vector
  kMaxLen,            \* longest string that is read
  kMaxCount,          \* most strings of a list that are read
  kMaxOverrides,      \* most overrides of a policy that are read
  Alterations         \* values that a damaged byte may have

ASSUME CodecAssumption ==
  /\ {Width32, Width64, kResourceCount} \subseteq Nat \ {0}
  /\ {kMaxLen, kMaxCount, kMaxOverrides} \subseteq Nat
  /\ Alterations \subseteq Nat

-----------------------------------------------------------------------------
(* Fields *)

Field(kind, width, name) == [kind |-> kind, width |-> width, name |-> name]

Fields(kind, width, names) == [i \in DOMAIN names |-> Field(kind, width, names[i])]

U8(names)     == Fields("number", 1, names)
U32(names)    == Fields("number", Width32, names)
U64(names)    == Fields("number", Width64, names)
Vector(names) == Fields("number", kResourceCount * Width64, names)
OptU8(names)  == Fields("optional", 1, names)
Opt64(names)  == Fields("optional", Width64, names)
OptVector(names) == Fields("optional", kResourceCount * Width64, names)
String(names) == Fields("string", 0, names)
Strings(names) == Fields("strings", 0, names)
\* A number that the decoder compares with the largest value of its type.
Enum(names)   == Fields("enum", 1, names)

LastStatus == 4

\* The overrides of a policy: a count, then the fields of each.
Overrides(fields) == <<[kind |-> "overrides", width |-> 0, name |-> "overrides", of |-> fields]>>

-----------------------------------------------------------------------------
(* What the encoders write *)

DescriptorWritten ==
  U8(<<"workload_type">>)
    \o U64(<<"admission_request_id", "request_id", "attempt_id", "tenant_id", "model_id", "model_revision">>)
    \o Opt64(<<"adapter_id">>)
    \o U64(<<"policy_generation", "input_tokens", "expected_output_tokens", "max_output_tokens">>)
    \o U8(<<"batchable", "priority", "latency_class">>)
    \o Opt64(<<"deadline", "requested_slo">>) \o OptVector(<<"expected_demand">>)
    \o U8(<<"preemption", "degradation_permitted", "requires_reservation">>) \o U64(<<"admission_ttl">>)
    \o String(<<"backend", "dtype", "quantization", "workload_class">>) \o Strings(<<"policy_tags">>)

SnapshotWritten ==
  U64(<<"generation", "timestamp", "agent_id", "boot_id">>) \o String(<<"node_name">>)
    \o U32(<<"device_index">>) \o String(<<"device_name">>)
    \o Vector(<<"total", "used", "reserved", "reclaimable">>) \o Strings(<<"capabilities">>)
    \o U8(<<"healthy">>) \o Strings(<<"model_residency_hints", "transfer_path_hints">>)
    \o Fields("number", kResourceCount, <<"pressure", "provenance">>)

ReservationWritten ==
  U64(<<"id", "owner">>) \o Vector(<<"demand">>) \o U64(<<"created_at", "expires_at">>)
    \o Opt64(<<"admission_request_id", "admission_generation">>) \o Enum(<<"status">>)
    \o U64(<<"generation">>)

PolicyWritten ==
  U64(<<"generation">>) \o String(<<"name">>) \o U64(<<"safety_headroom_ratio">>)
    \o Vector(<<"absolute_safety_margin">>) \o U8(<<"overcommit">>) \o Vector(<<"overcommit_allowance">>)
    \o U64(<<"overcommit_confidence_min", "min_predictor_confidence", "max_snapshot_age">>)
    \o U8(<<"accept_stale_snapshot", "quota_fail_closed", "admit_slo_feasible_with_risk", "require_reservation">>)
    \o U64(<<"max_reservation_lifetime", "default_admission_ttl">>) \o U32(<<"max_deferrals">>)
    \o U64(<<"defer_min_backoff", "defer_max_wait", "small_request_priority_boost",
             "large_request_starvation_boost">>)
    \o U32(<<"fairness_window">>)
    \o Overrides(String(<<"key">>) \o Opt64(<<"o.safety_headroom_ratio">>) \o OptU8(<<"o.overcommit_mode">>)
                   \o OptVector(<<"o.overcommit_allowance">>) \o Opt64(<<"o.min_predictor_confidence">>)
                   \o OptU8(<<"o.admit_slo_risk", "o.require_reservation">>)
                   \o Opt64(<<"o.small_request_boost">>))

QuotaWritten ==
  U8(<<"present">>) \o U64(<<"generation">>) \o String(<<"source_authority">>) \o U64(<<"timestamp">>)
    \o U8(<<"stale">>) \o Vector(<<"limits", "used", "reserved">>) \o U64(<<"token_budget">>)
    \o U32(<<"max_concurrent_requests", "max_sequences">>) \o U64(<<"compute_time_allowance">>)

ObservationWritten ==
  U64(<<"id", "admission_request_id", "tenant_id", "model_id", "model_revision">>)
    \o String(<<"backend", "dtype", "quantization">>) \o U8(<<"workload_type">>)
    \o U64(<<"peak_vram", "host_memory", "pinned_memory", "kv_growth", "transfer_bytes",
             "execution_duration", "input_tokens", "output_tokens", "completed_at">>)
    \o U8(<<"kind">>)

DecisionWritten ==
  U64(<<"admission_request_id", "request_id", "attempt_id", "tenant_id", "model_id", "model_revision">>)
    \o U8(<<"outcome">>) \o U32(<<"reason">>)
    \o U64(<<"policy_generation", "snapshot_generation", "admission_generation", "epoch", "confidence",
             "decision_time">>)
    \o Opt64(<<"reservation_id">>) \o Vector(<<"predicted_requirement">>) \o String(<<"explanation">>)

ProfileWritten ==
  U64(<<"model_id", "revision">>) \o String(<<"backend", "dtype", "quantization">>)
    \o U64(<<"generation", "fixed_base_memory", "per_token_kv_bytes", "per_token_tensor_bytes",
             "per_request_overhead", "workspace_bytes", "staging_bytes", "pinned_staging_bytes",
             "safety_margin_ratio", "fragmentation_ratio", "prefill_tokens_per_sec",
             "decode_tokens_per_sec", "transfer_bytes_per_sequence", "transfer_bytes_per_sec",
             "host_memory_bytes", "pinned_host_memory_bytes">>)
    \o U32(<<"execution_slots_required", "sequence_slots_required">>)

RegisterWritten ==
  U64(<<"agent", "boot">>) \o Strings(<<"caps">>) \o Vector(<<"inventory">>)
    \o String(<<"device_name">>) \o U32(<<"device_index">>)

ErrorWritten == U32(<<"code">>) \o String(<<"msg">>)

-----------------------------------------------------------------------------
(* What the decoders read: lists of their own, as in the code, with fields of *)
(* one type that follow each other in one group.                              *)

DescriptorRead ==
  U8(<<"workload_type">>)
    \o U64(<<"admission_request_id", "request_id", "attempt_id", "tenant_id", "model_id", "model_revision">>)
    \o Opt64(<<"adapter_id">>)
    \o U64(<<"policy_generation", "input_tokens", "expected_output_tokens", "max_output_tokens">>)
    \o U8(<<"batchable", "priority", "latency_class">>)
    \o Opt64(<<"deadline", "requested_slo">>) \o OptVector(<<"expected_demand">>)
    \o U8(<<"preemption", "degradation_permitted", "requires_reservation">>) \o U64(<<"admission_ttl">>)
    \o String(<<"backend", "dtype", "quantization", "workload_class">>) \o Strings(<<"policy_tags">>)

SnapshotRead ==
  U64(<<"generation", "timestamp", "agent_id", "boot_id">>) \o String(<<"node_name">>)
    \o U32(<<"device_index">>) \o String(<<"device_name">>)
    \o Vector(<<"total", "used", "reserved", "reclaimable">>) \o Strings(<<"capabilities">>)
    \o U8(<<"healthy">>) \o Strings(<<"model_residency_hints", "transfer_path_hints">>)
    \o Fields("number", kResourceCount, <<"pressure", "provenance">>)

\* Mutant: the optional fields are read in the order of the declaration.
ReservationReadAsDeclared ==
  U64(<<"id", "owner">>) \o Vector(<<"demand">>) \o U64(<<"created_at", "expires_at">>)
    \o Opt64(<<"admission_generation", "admission_request_id">>) \o Enum(<<"status">>)
    \o U64(<<"generation">>)

ReservationRead ==
  U64(<<"id", "owner">>) \o Vector(<<"demand">>) \o U64(<<"created_at", "expires_at">>)
    \o Opt64(<<"admission_request_id", "admission_generation">>) \o Enum(<<"status">>)
    \o U64(<<"generation">>)

PolicyRead ==
  U64(<<"generation">>) \o String(<<"name">>) \o U64(<<"safety_headroom_ratio">>)
    \o Vector(<<"absolute_safety_margin">>) \o U8(<<"overcommit">>) \o Vector(<<"overcommit_allowance">>)
    \o U64(<<"overcommit_confidence_min", "min_predictor_confidence", "max_snapshot_age">>)
    \o U8(<<"accept_stale_snapshot", "quota_fail_closed", "admit_slo_feasible_with_risk", "require_reservation">>)
    \o U64(<<"max_reservation_lifetime", "default_admission_ttl">>) \o U32(<<"max_deferrals">>)
    \o U64(<<"defer_min_backoff", "defer_max_wait", "small_request_priority_boost",
             "large_request_starvation_boost">>)
    \o U32(<<"fairness_window">>)
    \o Overrides(String(<<"key">>) \o Opt64(<<"o.safety_headroom_ratio">>) \o OptU8(<<"o.overcommit_mode">>)
                   \o OptVector(<<"o.overcommit_allowance">>) \o Opt64(<<"o.min_predictor_confidence">>)
                   \o OptU8(<<"o.admit_slo_risk", "o.require_reservation">>)
                   \o Opt64(<<"o.small_request_boost">>))

QuotaRead ==
  U8(<<"present">>) \o U64(<<"generation">>) \o String(<<"source_authority">>) \o U64(<<"timestamp">>)
    \o U8(<<"stale">>) \o Vector(<<"limits", "used", "reserved">>) \o U64(<<"token_budget">>)
    \o U32(<<"max_concurrent_requests", "max_sequences">>) \o U64(<<"compute_time_allowance">>)

ObservationRead ==
  U64(<<"id", "admission_request_id", "tenant_id", "model_id", "model_revision">>)
    \o String(<<"backend", "dtype", "quantization">>) \o U8(<<"workload_type">>)
    \o U64(<<"peak_vram", "host_memory", "pinned_memory", "kv_growth", "transfer_bytes",
             "execution_duration", "input_tokens", "output_tokens", "completed_at">>)
    \o U8(<<"kind">>)

DecisionRead ==
  U64(<<"admission_request_id", "request_id", "attempt_id", "tenant_id", "model_id", "model_revision">>)
    \o U8(<<"outcome">>) \o U32(<<"reason">>)
    \o U64(<<"policy_generation", "snapshot_generation", "admission_generation", "epoch", "confidence",
             "decision_time">>)
    \o Opt64(<<"reservation_id">>) \o Vector(<<"predicted_requirement">>) \o String(<<"explanation">>)

ProfileRead ==
  U64(<<"model_id", "revision">>) \o String(<<"backend", "dtype", "quantization">>)
    \o U64(<<"generation", "fixed_base_memory", "per_token_kv_bytes", "per_token_tensor_bytes",
             "per_request_overhead", "workspace_bytes", "staging_bytes", "pinned_staging_bytes",
             "safety_margin_ratio", "fragmentation_ratio", "prefill_tokens_per_sec",
             "decode_tokens_per_sec", "transfer_bytes_per_sequence", "transfer_bytes_per_sec",
             "host_memory_bytes", "pinned_host_memory_bytes">>)
    \o U32(<<"execution_slots_required", "sequence_slots_required">>)

RegisterRead ==
  U64(<<"agent", "boot">>) \o Strings(<<"caps">>) \o Vector(<<"inventory">>)
    \o String(<<"device_name">>) \o U32(<<"device_index">>)

ErrorRead == U32(<<"code">>) \o String(<<"msg">>)

Structure(written, read) == [written |-> written, read |-> read]

\* The structures of the state file and the messages of the wire.
Structures ==
  <<Structure(ErrorWritten, ErrorRead), Structure(RegisterWritten, RegisterRead),
    Structure(DescriptorWritten, DescriptorRead), Structure(SnapshotWritten, SnapshotRead),
    Structure(ReservationWritten, ReservationRead), Structure(PolicyWritten, PolicyRead),
    Structure(QuotaWritten, QuotaRead), Structure(ObservationWritten, ObservationRead),
    Structure(DecisionWritten \o U32(<<"error_code">>), DecisionRead \o U32(<<"error_code">>)),
    Structure(ProfileWritten, ProfileRead)>>

-----------------------------------------------------------------------------
(* The writer *)

Cells(name, values) == [i \in DOMAIN values |-> [name |-> name, value |-> values[i]]]

\* Any content: what it is does not matter, only that it is not zero.
Content(name, n) == Cells(name, [i \in 1 .. n |-> 1])

\* An integer that is a length or a count: low byte first.
Small(name, n) == Cells(name, [i \in 1 .. Width32 |-> IF i = 1 THEN n ELSE 0])

WriteString(name, n) == Small(name, n) \o Content(name, n)

\* The parts one after the other: what is written after each, and after all.
ConcatUpto(parts) ==
  LET upto[i \in 0 .. Len(parts)] == IF i = 0 THEN <<>> ELSE upto[i - 1] \o parts[i]
  IN upto

Concat(parts) == ConcatUpto(parts)[Len(parts)]

\* A shape says how long or how many for every field that varies: the length
\* of a string, the number of strings or overrides, 0 or 1 for an optional.
WriteField(f, shape) ==
  CASE f.kind \in {"number", "enum"} -> Content(f.name, f.width)
    [] f.kind = "string"   -> WriteString(f.name, shape[f])
    [] f.kind = "strings"  ->
         Small(f.name, shape[f])
           \o Concat([i \in 1 .. shape[f] |-> WriteString(f.name, i % (kMaxLen + 1))])
    [] f.kind = "optional" ->
         Cells(f.name, <<shape[f]>>)
           \o (IF shape[f] = 1 THEN Content(f.name, f.width) ELSE <<>>)

WriteFields(fields, shape) == Concat([i \in DOMAIN fields |-> WriteField(fields[i], shape)])

WriteOverrides(f, shape) ==
  Small(f.name, shape[f]) \o Concat([j \in 1 .. shape[f] |-> WriteFields(f.of, shape)])

WriteItem(f, shape) ==
  IF f.kind = "overrides" THEN WriteOverrides(f, shape) ELSE WriteField(f, shape)

Write(fields, shape) == Concat([i \in DOMAIN fields |-> WriteItem(fields[i], shape)])

-----------------------------------------------------------------------------
(* The reader: where it is, whether it has failed (it then reads zeros and    *)
(* stays where it is), whether the decoder has refused what it read, whether  *)
(* a byte went to a field it was not written for, and the number read last.   *)

Fresh == [pos |-> 0, failed |-> FALSE, refused |-> FALSE, misread |-> FALSE, number |-> 0]

Fail(r) == [r EXCEPT !.failed = TRUE, !.number = 0]

RefuseIf(c, r) == [r EXCEPT !.refused = @ \/ c]

\* What the bytes read as an integer, lowest first; only small ones matter.
NumberOf(bytes, from, n) ==
  IF n = 0 THEN 0
  ELSE IF \E i \in from + 2 .. from + n : bytes[i].value # 0
       THEN kMaxLen + kMaxCount + kMaxOverrides + 1
       ELSE bytes[from + 1].value

\* Go over n bytes that belong to a field.
Advance(r, bytes, name, n) ==
  [r EXCEPT !.pos = @ + n,
            !.misread = @ \/ \E i \in r.pos + 1 .. r.pos + n :
                               i \in DOMAIN bytes /\ bytes[i].name # name]

\* Mutant: a failure is forgotten when the next integer is read.
ReadNumberForgetful(r, bytes, name, width) ==
  LET left == Len(bytes) - r.pos
      n == IF width <= left THEN width ELSE left
  IN [Advance(r, bytes, name, n) EXCEPT !.failed = n < width, !.number = NumberOf(bytes, r.pos, n)]

\* An integer is read byte by byte, to the end of the buffer if it is cut.
ReadNumber(r, bytes, name, width) ==
  IF r.failed THEN Fail(r)
  ELSE LET left == Len(bytes) - r.pos
           n == IF width <= left THEN width ELSE left
       IN [Advance(r, bytes, name, n) EXCEPT
             !.failed = n < width, !.number = NumberOf(bytes, r.pos, n)]

\* Mutant: the length is compared with the size of the buffer.
NeedOfBuffer(r, bytes, n) == IF n > Len(bytes) THEN Fail(r) ELSE r

\* need: the bytes that are left suffice.
Need(r, bytes, n) == IF n > Len(bytes) - r.pos THEN Fail(r) ELSE r

ReadString(r, bytes, name) ==
  LET l == ReadNumber(r, bytes, name, Width32)
      s == IF l.failed \/ l.number > kMaxLen THEN Fail(l) ELSE Need(l, bytes, l.number)
  IN IF s.failed THEN s ELSE Advance(s, bytes, name, l.number)

\* The reader after each of the strings that were counted.
StringsUpto(c, bytes, name) ==
  LET upto[i \in 0 .. c.number] == IF i = 0 THEN c ELSE ReadString(upto[i - 1], bytes, name)
  IN upto

ReadStrings(r, bytes, name) ==
  LET c == ReadNumber(r, bytes, name, Width32)
  IN IF c.failed \/ c.number > kMaxCount THEN Fail(c) ELSE StringsUpto(c, bytes, name)[c.number]

\* A status beyond the last one is refused, at the end of the decoder.
ReadEnum(r, bytes, name) ==
  LET e == ReadNumber(r, bytes, name, 1) IN RefuseIf(e.number > LastStatus, e)

ReadField(f, bytes, r) ==
  CASE f.kind = "number"   -> ReadNumber(r, bytes, f.name, f.width)
    [] f.kind = "enum"     -> ReadEnum(r, bytes, f.name)
    [] f.kind = "string"   -> ReadString(r, bytes, f.name)
    [] f.kind = "strings"  -> ReadStrings(r, bytes, f.name)
    [] f.kind = "optional" ->
         LET flag == ReadNumber(r, bytes, f.name, 1)
         IN IF flag.number = 0 THEN flag ELSE ReadNumber(flag, bytes, f.name, f.width)

\* The reader after each field, and after each of the overrides.
FieldsUpto(fields, bytes, r) ==
  LET upto[i \in 0 .. Len(fields)] == IF i = 0 THEN r ELSE ReadField(fields[i], bytes, upto[i - 1])
  IN upto

ReadFields(fields, bytes, r) == FieldsUpto(fields, bytes, r)[Len(fields)]

OverridesUpto(f, bytes, c) ==
  LET upto[i \in 0 .. c.number] == IF i = 0 THEN c ELSE ReadFields(f.of, bytes, upto[i - 1])
  IN upto

ReadOverrides(f, bytes, r) ==
  LET c == ReadNumber(r, bytes, f.name, Width32)
  IN IF c.number > kMaxOverrides THEN RefuseIf(TRUE, c) ELSE OverridesUpto(f, bytes, c)[c.number]

ReadItem(f, bytes, r) ==
  IF f.kind = "overrides" THEN ReadOverrides(f, bytes, r) ELSE ReadField(f, bytes, r)

-----------------------------------------------------------------------------
(* Structures on their way from an encoder to a decoder *)

Varying(fields) ==
  {fields[i] : i \in {j \in DOMAIN fields : fields[j].kind \notin {"number", "enum"}}}

Variables(fields) ==
  Varying(fields) \cup UNION {Varying(f.of) : f \in {g \in Varying(fields) : g.kind = "overrides"}}

\* The most that a decoder takes of a field that varies.
Most(kind) ==
  CASE kind = "string" -> kMaxLen [] kind = "strings" -> kMaxCount
    [] kind = "overrides" -> kMaxOverrides [] kind = "optional" -> 1

\* The fields F at their most, the others absent or empty.
ShapeOf(fields, F) == [f \in Variables(fields) |-> IF f \in F THEN Most(f.kind) ELSE 0]

VARIABLES
  subject,    \* the structure under way, 0 when there is none
  full,       \* those of its fields that are at their most
  buffer,     \* its bytes
  damage,     \* what happened to them
  field,      \* the decoder's next field
  reader      \* the decoder's reader

codecVars == <<subject, full, buffer, damage, field, reader>>

\* An encoder writes, a decoder begins to read.
Encode(s, F) ==
  /\ subject = 0
  /\ subject' = s /\ full' = F
  /\ buffer' = Write(Structures[s].written, ShapeOf(Structures[s].written, F))
  /\ damage' = "none" /\ field' = 1 /\ reader' = Fresh

\* Damage is tried on the structures with every field at its least or its most.
Damageable ==
  /\ subject # 0 /\ field = 1 /\ damage = "none"
  /\ full \in {{}, Variables(Structures[subject].written)}

\* Bytes are lost from the end.
Cut(n) ==
  /\ Damageable /\ n < Len(buffer)
  /\ buffer' = SubSeq(buffer, 1, n) /\ damage' = "cut"
  /\ UNCHANGED <<subject, full, field, reader>>

\* A byte is replaced.
Alter(i, v) ==
  /\ Damageable /\ i \in DOMAIN buffer
  /\ buffer' = [buffer EXCEPT ![i].value = v] /\ damage' = "altered"
  /\ UNCHANGED <<subject, full, field, reader>>

AllRead == subject # 0 /\ field > Len(Structures[subject].read)

\* The decoder reads its next field.
ReadNext ==
  /\ subject # 0 /\ ~AllRead
  /\ reader' = ReadItem(Structures[subject].read[field], buffer, reader)
  /\ field' = field + 1
  /\ UNCHANGED <<subject, full, buffer, damage>>

CodecInit ==
  subject = 0 /\ full = {} /\ buffer = <<>> /\ damage = "none" /\ field = 1 /\ reader = Fresh

\* The decoder returns.
Finish ==
  /\ AllRead
  /\ subject' = 0 /\ full' = {} /\ buffer' = <<>> /\ damage' = "none" /\ field' = 1 /\ reader' = Fresh

CodecNext ==
  \/ \E s \in DOMAIN Structures : \E F \in SUBSET Variables(Structures[s].written) : Encode(s, F)
  \/ \E n \in 0 .. Len(buffer) - 1 : Cut(n)
  \/ \E i \in DOMAIN buffer, v \in Alterations : Alter(i, v)
  \/ ReadNext
  \/ Finish

CodecSpec == CodecInit /\ [][CodecNext]_codecVars

-----------------------------------------------------------------------------
(* Properties *)

\* The reader's position, flags and number have their types, and it is never
\* past the end of the buffer, whichever length, count or flag was altered.
NeverPastEnd ==
  reader \in [pos : 0 .. Len(buffer), failed : BOOLEAN, refused : BOOLEAN, misread : BOOLEAN, number : Nat]

\* Whatever is absent, empty or at its bound, a decoder reads all that the
\* encoder wrote and nothing else, every byte into the field it was written
\* for: so the structures of a state file, which follow each other without a
\* separator, are all found.
RoundTrip ==
  damage = "none" =>
    /\ ~reader.failed /\ ~reader.refused /\ ~reader.misread
    /\ AllRead => reader.pos = Len(buffer)

\* A structure that is cut anywhere is refused, wherever the cut falls: in an
\* integer, before the flag of an optional field, or inside a string.
CutRefused == damage = "cut" /\ AllRead => reader.failed \/ reader.refused

\* A failure is final: no later read succeeds, moves the reader or puts
\* anything but zero into a field.
FailureFinal ==
  [][reader.failed /\ UNCHANGED subject =>
       reader'.failed /\ reader'.pos = reader.pos /\ reader'.number = 0]_reader
================================================================================
