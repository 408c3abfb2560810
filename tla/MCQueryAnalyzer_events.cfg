SPECIFICATION FairSpec
CONSTANTS
  q = q
  s = s
  f = f
  g = g
  h = h
  Key = {k}
  Query = {q, s}
  NoQuery = NoQuery
  Call = {r1, r2, e1}
  Event = {e1}
  Message <- Messages
  Field = {f, g, h}
  MaxVersion = 3
  Broken = {3}
  OperationType <- Types
  FieldsOf <- Fields
INVARIANT CachedIsRegistered
INVARIANT CreatedIsFound
INVARIANT RegisteredQueryIsCounted
INVARIANT UsageIsOfOneSchema
PROPERTY EventsEnd
CHECK_DEADLOCK FALSE
