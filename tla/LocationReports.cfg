SPECIFICATION Spec
CONSTANTS
  sami = sami
  d1 = d1
  d2 = d2
  f1 = f1
  f2 = f2
  z1 = z1
  z2 = z2
  None = None
  Children = {sami}
  Devices = {d1, d2}
  ChildOf <- OneChild
  Codes = {k1}
  Fixes = {f1, f2}
  Taker <- FirstTakes
  RecordedAt <- Times
  Inside <- Places
  Located = {f1, f2}
  Ageing = {f1}
  Zones = {z1, z2}
  Txns = {t1, t2}
  Kinds = {"ingest", "revoke", "erase", "remove"}
CHECK_DEADLOCK FALSE
INVARIANTS CrossingHasFix CrossingsAlternate
PROPERTIES CutOffHandsetStoresNothing ErasedStaysErased StoredByConsent
SYMMETRY RowSymmetry
