SPECIFICATION PartSpec
CONSTANTS
  founder = founder
  alia = alia
  badr = badr
  f1 = f1
  a1 = a1
  a2 = a2
  c1 = c1
  None = None
  Family = Family
  Members = {f1,a1,a2}
  Subjects = {founder, alia, badr}
  SubjectOf <- Accounts
  Founder = f1
  Cases = {c1,c2}
  Codes = {k1,k2}
  InviteRoles = {"co_guardian", "child"}
  MaxOpenCodes = 1
  Txns = {t1,t2}
  Kinds = {"invite","accept","revoke","createTransfer","acceptTransfer","cancelTransfer","issueCode","revokeCode","redeemCode"}
INVARIANTS OnePrimary NoRoleSwapDeadlock OpenCodesBounded
PROPERTIES RemovedStaysOut KeepsRoster CodeSpentOnce
SYMMETRY RowSymmetry
