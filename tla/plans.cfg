SPECIFICATION ServicesSpec
CONSTANTS
  b1 = b1
  k1 = k1
  k2 = k2
  m1 = m1
  m2 = m2
  s1 = s1
  s2 = s2
  NoOffer = NoOffer
  Business = {b1}
  RequestKey = {k1}
  Offer <- MCOffer
  Price <- MCPrice
  HoldFor = 1
  MaxTime = 1
  Manager = {m1, m2}
  MaxVersion = 2
  Slot = {s1}
  Canvas = {2}
  MaxRevision = 2
  None = None
  Market = {1, 2}
  Occurrence = {1, 2, 3}
  Listing <- MCListing
  Row <- MCRow
  Filters <- MCFilters
  LocalDate <- MCLocalDate
  Distance <- MCDistance
  Dlat <- MCDegrees
  Dlng <- MCDegrees
  LIST_DEFAULT_LIMIT = 2
  LIST_MAX_LIMIT = 2
  MAP_MAX_MARKERS = 1
  Limits = {0, 1}
  LastMoment = 1
SYMMETRY Symmetric
INVARIANTS
  OccupiedStallsAreOffered
  PagesAreWhole
  MapShowsTheList
PROPERTIES
  UsedPlansStay
  NothingIsOverwrittenUnseen
  PublishedAsSeen
CHECK_DEADLOCK FALSE
