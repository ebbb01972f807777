SPECIFICATION FairSpec
CONSTANTS
  b1 = b1
  b2 = b2
  k1 = k1
  k2 = k2
  o1 = o1
  a1 = a1
  a2 = a2
  w1 = w1
  w2 = w2
  NoOffer = NoOffer
  None = None
  Free = Free
  Business <- OneBusiness
  RequestKey <- OneKey
  Offer <- OneOffer
  Attempt <- OneAttempt
  Worker <- TwoWorkers
  Price <- Paid
  MaxAttempts = 1
  HoldFor = 1
  SessionFor = 2
  AbandonAfter = 1
  MaxTime = 3
  RefusalIsFinal = TRUE
  LatePayment = FALSE
PROPERTIES
  PaymentsSettle
  PendingEnds
CHECK_DEADLOCK FALSE
