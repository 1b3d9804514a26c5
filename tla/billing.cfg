SPECIFICATION BillingSerialSpec
CONSTANTS
  b1 = b1
  i1 = i1
  p1 = p1
  p2 = p2
  t1 = t1
  t2 = t2
  k1 = k1
  k2 = k2
  h1 = h1
  NoKey = NoKey
  NoOne = NoOne
  Businesses      = {b1}
  Owner          <- MCOwner
  Invoices        = {i1}
  PayCalls        = {p1, p2}
  TransitionCalls = {t1, t2}
  Keys            = {k1, k2}
  Cards           = {"tok_success", "tok_card_declined"}
  TooLong         = {}
  ZeroTotal       = {}
  PayWorkload        <- AnyPay
  TransitionWorkload <- AnyTransition
  MaxCrashes      = 1
  Endpoints       = {h1}
  MinSends        = 1
  MaxSends        = 1
SYMMETRY Symmetry
INVARIANTS
  BillingTypeOK
  ReceiversToldTruth
PROPERTIES
  ToldAsItHappens
  PaidIsLastWord
