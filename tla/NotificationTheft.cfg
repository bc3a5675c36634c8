SPECIFICATION Spec
CONSTANTS
  g1 = g1
  g2 = g2
  r1 = r1
  None = None
  Events = {e1}
  SosEvents = {e1}
  SilentEvents = {}
  BadEvents = {}
  Guardians = {g1}
  Regs = {r1}
  Owner <- OneHandset
  Workers = {w1, w2}
  MaxAttempts = 2
  BatchLimit = 1
  MaxFaults = 1
CHECK_DEADLOCK FALSE
INVARIANT SosDeliveredIsTrue
PROPERTIES ClosedStaysClosed KeepsLedger
SYMMETRY WorkerSymmetry
