SPECIFICATION FairSpec
CONSTANTS
  d = d
  e = e
  twice = twice
  x = x
  y = y
  p1 = p1
  r1 = r1
  r2 = r2
  l1 = l1
  Process = {p1}
  MaxSignals = 2
  Source = {s1, s2}
  NameOf <- OneName
  Document = {d, e, twice}
  NoDocument = NoDocument
  Subscription = {x, y}
  FieldsOf <- Fields
  Repeats = {twice}
  Push = {r1, r2}
  List = {l1}
  ProcessOf <- OneProcess
INVARIANT DefinitionsMatchSource
INVARIANT ListingIsWhole
PROPERTY DrainedBeforeExit
PROPERTY TerminationEnds
CHECK_DEADLOCK FALSE
