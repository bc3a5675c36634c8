CONSTANTS
  Fields = {"cap", "bedtime"}
  Handsets = {d1, d2}
  Apps = {a1}
  MaxMinutes = 2
  MaxLocks = 3
  MaxAsks = 2
  DayLength = 2
  Offset = 0
  Lifetime = 1
  wide = wide
  narrow = narrow
  Hosts = {wide, narrow}
  Within <- Under
  Screens = {s1, s2}
  Devices = {d1}
  MaxSaves = 3
  MaxDoors = 2
  MaxReports = 3
  MaxGrant = 2
  Freshness = 1
  g1 = g1
  g2 = g2
  k1 = k1
  k2 = k2
  Guardians = {g1, g2}
  Kids = {k1, k2}
  Kid = k1
  Presses = {1, 2, 3, 4, 5}
  MaxTasks = 1
  MaxClaims = 2
  MaxPoints = 2
  OpenCeiling = 1
  PointsCeiling = 3
  MaxVersions = 3
  MaxStart = 1
  Txns = {t1, t2}
  MaxMinute = 3
SPECIFICATION Spec
PROPERTY RefusedOnlyWhenChanged
CHECK_DEADLOCK FALSE
