SPECIFICATION Spec
CONSTANTS
  Workers = {w1, w2}
  Tenants = {t1, t2}
  Names = {n1}
  NoKey = NoKey
  MaxCalls = 3
  MaxFaults = 1
INVARIANTS
  TypeOK
  CallsLinearize
  TrailBalances
PROPERTIES
  TenantsApart
  EventuallyReady
CHECK_DEADLOCK FALSE
