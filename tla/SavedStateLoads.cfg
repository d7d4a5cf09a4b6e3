SPECIFICATION RecoverySpec
CONSTANTS
  mem = mem
  kv = kv
  q1 = q1
  q2 = q2
  Resource = {mem, kv}
  AcceleratorMemory = mem
  UMax = 64
  IdMax = 4
  kMaxGenerations = 1
  NoPolicy = NoPolicy
  NoAdmission = NoAdmission
  NoImage = NoImage
  Torn = Torn
  MaxCrashes = 1
  RequestId = {q1, q2}
  Tenant = {1}
  kMaxTenants = 1
  StarvationTicks = 1
  MaxEvaluations = 1
  MaxTime = 0
  Totals = {}
  Allowances = {}
  Demands = {}
  Ttls = {}
  ReservationId <- MCReservationId
  Admission <- MCAdmission
  Descriptors <- RecoveryDescriptors
  Predictions <- RecoveryPredictions
  Policies <- LifecyclePolicies
  Snapshots <- LifecycleSnapshots
  Quotas = {}
INVARIANTS SavedStateLoads
