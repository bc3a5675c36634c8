SPECIFICATION PartSpec
CONSTANTS
  sami = sami
  lina = lina
  d1 = d1
  d2 = d2
  g1 = g1
  g2 = g2
  p1 = p1
  p2 = p2
  n1 = n1
  n2 = n2
  None = None
  Children = {sami, lina}
  Devices = {d1, d2}
  ChildOf <- TwoChildren
  Guardians = {g1, g2}
  Alerts = {a1, a2}
  Presses = {p1, p2}
  By <- Senders
  Via <- Doors
  About <- Subjects
  Fix <- Positions
  Contacts = {c1, c2}
  Phones = {n1, n2}
  MaxContacts = 2
  Txns = {t1, t2}
  Kinds = {"fire", "acknowledge", "escalate", "resolve", "revoke", "addContact", "changeContact"}
INVARIANT PressIsAnswered
SYMMETRY RowSymmetry
