SPECIFICATION EngineSpec
CONSTANTS
  mem = mem
  kv = kv
  q1 = q1
  q2 = q2
  Resource = {mem, kv}
  AcceleratorMemory = mem
  UMax = 64
  IdMax = 2
  kMaxGenerations = 1
  NoPolicy = NoPolicy
  NoAdmission = NoAdmission
  RequestId = {q1, q2}
  Tenant = {1}
  kMaxTenants = 1
  StarvationTicks = 0
  MaxEvaluations = 2
  MaxTime = 1
  Totals = {}
  Allowances = {}
  Demands = {}
  Ttls = {}
  ReservationId <- MCReservationId
  Admission <- MCAdmission
  Descriptors <- GateDescriptors
  Predictions <- GatePredictions
  Policies <- GatePolicies
  Snapshots <- GateSnapshots
  Quotas <- GateQuotas
INVARIANTS EffectiveRatioInRange
PROPERTIES HeadroomKept NoOverclaim BoundedHistory
