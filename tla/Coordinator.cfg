SPECIFICATION CoordSpec
CONSTANTS
  mem = mem
  kv = kv
  q1 = q1
  q2 = q2
  Resource = {mem, kv}
  AcceleratorMemory = mem
  UMax = 64
  IdMax = 4
  kMaxGenerations = 1
  NoPolicy = NoPolicy
  NoAdmission = NoAdmission
  RequestId = {q1, q2}
  Tenant = {1}
  kMaxTenants = 1
  StarvationTicks = 1
  MaxEvaluations = 1
  MaxTime = 0
  Totals = {}
  Allowances = {}
  Demands = {}
  Ttls = {}
  ReservationId <- MCReservationId
  Admission <- MCAdmission
  Policies <- LifecyclePolicies
  Snapshots = {}
  Quotas = {}
  NoConn = NoConn
  Conn = {c1, c2, c3}
  AgentId = {1, 2}
  Boot = {1, 2}
  Client = {t1}
  MaxReport = 1
  Start = 5
  Reports <- OneReport
  Descriptors <- OneDescriptor
  Predictions <- OnePrediction
  Placement <- OnePlacement
SYMMETRY ConnSymmetry
INVARIANTS DeadNotOffered EpochCountsLosses
 
CHECK_DEADLOCK FALSE
