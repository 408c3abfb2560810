CONSTANTS
  web = web
  guest = guest
  none = none
  Operation = {1, 2}
  Subscription = {1}
  Client = {guest}
  Identified = {web}
  NoClient = none
  ClientLabel <- Labels
  SchemaHits <- Hits
  Before <- RowsBefore
  UnitsPerHour = 1
  NameRank <- Ranks
  Loop = {l1, l2}
  Multiplier = {2}
  Amount = {1}
  FirstTime = 2
  MaxTime = 4
  MaxEvents = 2
  Window = 2
  Retention = 2
  Label = {1, 2, 3}
  Term <- Terms
  Limit = {1, 3}
  DefaultLimit = 3
  MaxClicks = 2
SPECIFICATION Spec
VIEW View
SYMMETRY Symmetry
INVARIANT CountedOnce
INVARIANT AverageIsExact
INVARIANT ChartMatchesTable
INVARIANT TopAreShown
PROPERTY PageIsFresh
CHECK_DEADLOCK FALSE
