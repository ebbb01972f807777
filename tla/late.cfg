SPECIFICATION Spec
CONSTANTS
  b1 = b1
  b2 = b2
  k1 = k1
  k2 = k2
  o1 = o1
  a1 = a1
  a2 = a2
  w1 = w1
  w2 = w2
  NoOffer = NoOffer
  None = None
  Free = Free
  Business <- TwoBusinesses
  RequestKey <- OneKey
  Offer <- OneOffer
  Attempt <- TwoAttempts
  Worker <- OneWorker
  Price <- Paid
  MaxAttempts = 2
  HoldFor = 1
  SessionFor = 2
  AbandonAfter = 1
  MaxTime = 4
  RefusalIsFinal = TRUE
  LatePayment = TRUE
SYMMETRY Symmetric
PROPERTIES
  EndedAttemptsStay
  HoldSpec
CHECK_DEADLOCK FALSE
