SPECIFICATION StallsSpec
CONSTANTS
  b1 = b1
  b2 = b2
  k1 = k1
  k2 = k2
  o1 = o1
  o2 = o2
  NoOffer = NoOffer
  Business <- MCBusiness
  RequestKey <- MCRequestKey
  Offer <- MCOffer
  Price <- MCPrice
  HoldFor = 1
  MaxTime = 3
  Worker <- MCBusiness
  Account = {a1}
  Vendor = Vendor
  Question <- MCRequestKey
  Window <- MCWindow
  Mix <- MCMix
  Start = {1, 2}
  Restriction <- MCOffer
  Nobody = Nobody
  LastInstant = 1
  MaxVersion = 2
SYMMETRY Symmetric
INVARIANTS
  OneOccupantPerStall
  OneStallPerBusiness
  AvailableStallsCanBeTaken
  NobodyWaitsInACircle
  ApplicationsEndOnce
  AnswersFitQuestions
  OneRestrictionPerTarget
PROPERTIES
  ShownEndIsFinal
  EntriesAreAllowed
CHECK_DEADLOCK FALSE
