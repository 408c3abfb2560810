SPECIFICATION Spec
CONSTANTS
  Subject = {app, anyone}
  Anonymous = {anyone}
  Sync = {s1, s2}
  MaxHits = 2
  MaxHour = 2
  HoursPerDay = 2
  Retention = 1
SYMMETRY Symmetric
INVARIANT Accounting
INVARIANT DayCoversHours
INVARIANT OneRowPerClient
