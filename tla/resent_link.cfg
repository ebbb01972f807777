SPECIFICATION TeamSpec
CONSTANTS
  founder = founder
  u1 = u1
  u2 = u2
  i1 = i1
  i2 = i2
  Nobody = Nobody
  User <- MCUser
  Founder = founder
  Invitation <- MCInvitation
  InviteFor = 1
  MaxResends = 1
  MaxOpened = 1
  MaxTime = 1
SYMMETRY Symmetric
PROPERTIES
  FreshLinksWork
CHECK_DEADLOCK FALSE
