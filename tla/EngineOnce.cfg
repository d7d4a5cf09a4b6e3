SPECIFICATION OnceSpec
CONSTANTS
  mem = mem
  kv = kv
  q1 = q1
  q2 = q2
  Resource = {mem, kv}
  AcceleratorMemory = mem
  UMax = 64
  IdMax = 3
  kMaxGenerations = 1
  NoPolicy = NoPolicy
  NoAdmission = NoAdmission
  RequestId = {q1, q2}
  Tenant = {1}
  kMaxTenants = 1
  StarvationTicks = 1
  MaxEvaluations = 4
  MaxTime = 2
  Totals = {}
  Allowances = {}
  Demands = {}
  Ttls = {}
  ReservationId <- MCReservationId
  Admission <- MCAdmission
  Descriptors <- LifecycleDescriptors
  Predictions <- LifecyclePredictions
  Policies <- LifecyclePolicies
  Snapshots <- LifecycleSnapshots
  Quotas = {}
INVARIANT NoOrphan
PROPERTY TerminalFinal
