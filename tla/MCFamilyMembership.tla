------------------------- MODULE MCFamilyMembership -------------------------
(***************************************************************************)
(* Instances of FamilyMembership for TLC: the founder and a second         *)
(* account, which may join twice, with invitations and two transfers; and  *)
(* the same with one row for the second account, one transfer and two      *)
(* invite codes.  The two are explored side by side.                       *)
(***************************************************************************)
EXTENDS FamilyMembership, TLC

CONSTANTS founder, alia, badr, f1, a1, a2, c1
VARIABLE part

Accounts == [m \in Members |-> IF m = f1 THEN founder ELSE alia]

Transfers ==
  \A t \in Txns : op'[t] \in {"none", "invite", "accept", "revoke", "createTransfer",
                              "acceptTransfer", "cancelTransfer"}
InviteCodes ==
  /\ \A t \in Txns : op'[t] \in {"none", "revoke", "createTransfer", "acceptTransfer",
                                 "cancelTransfer", "issueCode", "revokeCode", "redeemCode"}
  /\ status'[a2] = status[a2]
  /\ \A c \in Cases \ {c1} : case'[c] = case[c]

PartInit == Init /\ part \in {"transfers", "codes"}
PartNext == Next /\ part' = part /\ IF part = "transfers" THEN Transfers ELSE InviteCodes
PartSpec == PartInit /\ [][PartNext]_<<vars, part>>

RowSymmetry == Permutations(Txns) \cup Permutations(Codes)
=============================================================================
