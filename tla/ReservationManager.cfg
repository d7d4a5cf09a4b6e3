SPECIFICATION RMSpec
CONSTANTS
  mem = mem
  kv = kv
  r1 = r1
  r2 = r2
  r3 = r3
  a1 = a1
  Resource = {mem, kv}
  UMax = 8
  ReservationId = {r1, r2, r3}
  Admission = {a1}
  NoAdmission = NoAdmission
  Totals <- MCTotals
  Allowances <- MCAllowances
  Demands <- MCDemands
  Ttls = {0}
  MaxTime = 1
SYMMETRY MCSymmetry
INVARIANTS RMTypeOK Accounting NeverStuck
PROPERTIES NoOverclaim ForwardOnly ImplementsLedger
