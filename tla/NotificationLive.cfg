SPECIFICATION FairSpec
CONSTANTS
  g1 = g1
  g2 = g2
  r1 = r1
  None = None
  Events = {e1, e2}
  SosEvents = {e1}
  SilentEvents = {}
  BadEvents = {e2}
  Guardians = {g1, g2}
  Regs = {r1}
  Owner <- OneHandset
  Workers = {w1}
  MaxAttempts = 2
  BatchLimit = 2
  MaxFaults = 2
CHECK_DEADLOCK FALSE
INVARIANTS ClosedLeavesNothingOpen SosRowsSettled
PROPERTY EveryEventCloses
