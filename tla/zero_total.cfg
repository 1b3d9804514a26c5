SPECIFICATION Spec
CONSTANTS
  b1 = b1
  z1 = z1
  p1 = p1
  t1 = t1
  k1 = k1
  NoKey = NoKey
  NoOne = NoOne
  Businesses      = {b1}
  Owner          <- MCOwner
  Invoices        = {z1}
  PayCalls        = {p1}
  TransitionCalls = {t1}
  Keys            = {k1}
  Cards           = {"tok_success"}
  TooLong         = {}
  ZeroTotal       = {z1}
  PayWorkload        <- AnyPay
  TransitionWorkload <- AnyTransition
  MaxCrashes      = 0
INVARIANTS
  ConflictMeansDifferentBody
