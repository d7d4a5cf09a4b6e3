SPECIFICATION CoordSpec
CONSTANTS
  mem = mem
  kv = kv
  q1 = q1
  q2 = q2
  Resource = {mem, kv}
  AcceleratorMemory = mem
  UMax = 64
  IdMax = 4
  kMaxGenerations = 1
  NoPolicy = NoPolicy
  NoAdmission = NoAdmission
  RequestId = {q1, q2}
  Tenant = {1}
  kMaxTenants = 1
  StarvationTicks = 1
  MaxEvaluations = 2
  MaxTime = 0
  Totals = {}
  Allowances = {}
  Demands = {}
  Ttls = {}
  ReservationId <- MCReservationId
  Admission <- MCAdmission
  Policies <- LifecyclePolicies
  Snapshots = {}
  Quotas = {}
  NoConn = NoConn
  Conn = {c1, c2}
  AgentId = {1, 2}
  Boot = {1, 2}
  Client = {t1, t2}
  MaxReport = 1
  Start = 5
  Reports <- CoordReports
  Descriptors <- CoordDescriptors
  Predictions <- CoordPredictions
  Placement <- CoordPlacement
PROPERTY AdmitsOnLiveCapacity
CHECK_DEADLOCK FALSE
