SPECIFICATION PartsSpec
CONSTANTS
  x1 = x1
  x2 = x2
  y1 = y1
  y2 = y2
  founder = founder
  p1 = p1
  p2 = p2
  p3 = p3
  v1 = v1
  NoSale = NoSale
  Sale <- Xs
  Payment <- MCPayment
  Nobody = Nobody
  User <- MCUser
  Founder = founder
  Invitation <- Xs
  InviteFor = 1
  MaxResends = 1
  MaxOpened = 1
  MaxTime = 1
  Person <- MCUser
  Creator = founder
  NoPerson = NoPerson
  Invite <- Xs
  Profile <- MCProfile
  INVITATION_MAX_AGE = 1
  MaxRotations = 1
  MaxLookups = 1
  LastInstant = 1
  Process <- Xs
  Vendor <- MCVendor
  Booking <- Ys
  Units = 1
  NoVendor = NoVendor
  MaxDeclined = 1
  Server <- Xs
  Event <- Ys
  LateReports = FALSE
SYMMETRY Symmetric
INVARIANTS
  MoneyBuysStalls
  OneOwner
  PendingAreOutsiders
  NeverOversold
  PaymentsAreFound
  NewsIsNotLost
PROPERTIES
  JoinsAreInvited
  EndedInvitationsStay
  ImplementsTeam
CHECK_DEADLOCK FALSE
