SPECIFICATION ScreensSpec
CONSTANTS
  text = text
  box = box
  A = A
  B = B
  C = C
  X = X
  DayLength = 3
  MaxOccurrences = 4
  MaxDays = 15
  Zone <- MCZone
  Rule <- MCRule
  Instant <- MCInstant
  MaxDates = 3
  LastTime = 6
  NoText = NoText
  Nothing = Nothing
  Text <- MCText
  Box <- MCBox
  MaxPage = 2
  MaxAttempt = 1
  Label <- MCLabel
  NoLabel = NoLabel
  ServerOnly = {X}
  toLowerCase <- AsWritten
  casefold <- MCCasefold
  Lower <- MCLower
  MAX_STALLS = 3
  Position <- MCPosition
  Side = {1}
  CanvasSide = {1, 2}
  StartStalls = 2
  MaxDrawn = 4
  MaxEdits = 2
  MaxSaved = 3
  Call = {1, 2}
INVARIANTS
  SeriesAreWhole
  SavedPlansAreSound
  ScreenKnowsItsPlan
PROPERTIES
  DatesStay
  NewerResultsStay
CHECK_DEADLOCK FALSE
