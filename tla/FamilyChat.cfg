CONSTANTS
  g1 = g1  g2 = g2  g3 = g3  g4 = g4  k1 = k1  k2 = k2
  a = a  b = b
  Guardians = {g1, g2, g3, g4}
  Kids = {k1, k2}
  Readers = {k2}
  Sends = {a, b}
  AuthorOf <- Authors
  ChatTxns = {t1, t2}
  MaxSeq = 2
  MaxRevision = 3
  MaxVersion = 2
  GroupSize = 6
  PageSize = 1
  Nobody = Nobody
  Files = {f1, f2}
  Keys = {key1, key2, key3}
  Requests = {r1, r2}
  MaxLost = 1
  MaxCrashes = 1
  NoKey = NoKey
  Callers = {g1}
  Rooms = {room1}
  Sockets = {s1, s2}
  NoRoom = NoRoom
  NoCaller = NoCaller
  MaxHints = 2
  MaxPerCaller = 1
  MaxSubscriptions = 1
  MaxBuffered = 0
SPECIFICATION Spec
SYMMETRY Sym
INVARIANTS NothingMissed OneSendOneMessage GuardiansSitIn MissingOnlyWhenDeleted NoBytesOutlive NoHintToStrangers
PROPERTIES NoLostUpdate
CHECK_DEADLOCK FALSE
