SPECIFICATION SpecExclusive
CONSTANTS
  b1 = b1
  b2 = b2
  i1 = i1
  z1 = z1
  p1 = p1
  p2 = p2
  t1 = t1
  t2 = t2
  k1 = k1
  k2 = k2
  NoKey = NoKey
  NoOne = NoOne
  Businesses      = {b1, b2}
  Owner          <- MCOwner
  Invoices        = {i1, z1}
  PayCalls        = {p1, p2}
  TransitionCalls = {t1, t2}
  Keys            = {k1, k2}
  Cards           = {"tok_success", "tok_card_declined", "tok_timeout", "tok_unknown"}
  TooLong         = {k2}
  ZeroTotal       = {z1}
  PayWorkload        <- StrangersToo
  TransitionWorkload <- StrangersOpen
  MaxCrashes      = 1
SYMMETRY Symmetry
INVARIANTS
  StrangersOnlyReplay
  LedgerAgreesWithPsp
  RepliesMatchPsp
  SuccessMeansPaid
PROPERTIES
  LegalTransitions
