SPECIFICATION Spec
CONSTANTS
  b1 = b1
  i1 = i1
  p1 = p1
  p2 = p2
  t1 = t1
  t2 = t2
  t3 = t3
  k1 = k1
  NoKey = NoKey
  NoOne = NoOne
  Businesses      = {b1}
  Owner          <- MCOwner
  Invoices        = {i1}
  PayCalls        = {p1, p2}
  TransitionCalls = {t1, t2, t3}
  Keys            = {k1}
  Cards           = {"tok_success", "tok_card_declined"}
  TooLong         = {}
  ZeroTotal       = {}
  PayWorkload        <- AnyPay
  TransitionWorkload <- AnyTransition
  MaxCrashes      = 0
PROPERTIES
  VoidedNeverPaid
