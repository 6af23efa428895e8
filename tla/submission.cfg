SPECIFICATION FairSpec
CONSTANTS
  r1 = r1
  r2 = r2
  r3 = r3
  r4 = r4
  k1 = k1
  k2 = k2
  None = None
  Request <- FourRequests
  Key <- TwoKeys
  KeyOf <- ThreeRepeat
CHECK_DEADLOCK FALSE
INVARIANTS TypeOK AnswersAgree ReReadFinds HeldIsReal
PROPERTIES ActsAtOnce EveryRequestAnswered CreatedIsRefreshed
