SPECIFICATION Spec
CONSTANTS
  b1 = b1
  b2 = b2
  k0 = k0
  k1 = k1
  k2 = k2
  e1 = e1
  e2 = e2
  e3 = e3
  c1 = c1
  c2 = c2
  c3 = c3
  c4 = c4
  NoBusiness  = NoBusiness
  Calls       = {c1, c2, c3, c4}
  Businesses  = {b1, b2}
  ApiKeys     = {k0, k1, k2}
  Emails      = {e1, e2, e3}
  KeyBusiness <- MCKeyBusiness
  Payloads    <- MCPayloads
  Workloads   <- MCWorkloads
  PageSize    = 1
  IntMax      = 2
  BigMax      = 4
  MaxAborts   = 1
INVARIANTS
  TypeOK
  OneCustomerPerEmail
  ConflictMeansTaken
  AllOrNothing
  TotalsAddUp
  TenantIsolation
  ReadsAreComplete
  TotalNeverOverstates
  InsertWaitsEnd
PROPERTIES
  ImplementsRegistry
