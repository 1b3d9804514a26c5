SPECIFICATION Spec
CONSTANTS
  b1 = b1
  i1 = i1
  p1 = p1
  p2 = p2
  t1 = t1
  k1 = k1
  k2 = k2
  NoKey = NoKey
  NoOne = NoOne
  Businesses      = {b1}
  Owner          <- MCOwner
  Invoices        = {i1}
  PayCalls        = {p1, p2}
  TransitionCalls = {t1}
  Keys            = {k1, k2}
  Cards           = {"tok_success"}
  TooLong         = {}
  ZeroTotal       = {}
  PayWorkload        <- AnyPay
  TransitionWorkload <- AnyTransition
  MaxCrashes      = 0
INVARIANTS
  NoServerError
