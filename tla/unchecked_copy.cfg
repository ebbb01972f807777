SPECIFICATION Spec
CONSTANTS
  b1 = b1
  k1 = k1
  k2 = k2
  m1 = m1
  m2 = m2
  s1 = s1
  s2 = s2
  NoOffer = NoOffer
  Business = {b1}
  RequestKey = {k1}
  Offer <- MCOffer
  Price <- MCPrice
  HoldFor = 1
  MaxTime = 1
  Manager = {m1, m2}
  MaxVersion = 2
  Slot = {s1}
  Canvas = {1, 2}
  MaxRevision = 2
SYMMETRY Symmetric
INVARIANTS
  StoredPlansFit
CHECK_DEADLOCK FALSE
