SPECIFICATION ReadersSpec
CONSTANTS
  Service = {one, two}
  plain = plain
  extended = extended
  moved = moved
  turned = turned
  Document = {plain, extended, moved, turned}
  TypeDefs <- Texts
  Push = {r1, r2, r3}
  Limit = 2
  MaxTime = 1
  MaxPages = 2
  Process = {one, two}
  Handler = {r1, r2, r3, r4}
  Mutators = {r4}
  MaxVersion = 2
  Broken = {1}
SYMMETRY Symmetric
INVARIANT LogReplays
INVARIANT NoSilentChange
INVARIANT PreviousAgrees
INVARIANT PagesMissNothing
INVARIANT BatchIsNewest
INVARIANT FreshUnlessRaced
CHECK_DEADLOCK FALSE
