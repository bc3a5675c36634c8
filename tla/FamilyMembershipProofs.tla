----------------------- MODULE FamilyMembershipProofs -----------------------
(***************************************************************************)
(* For any number of accounts, rows and transactions: the family always    *)
(* has one active primary guardian and at most one transfer, the primary's *)
(* own; what was removed stays out.  All follow from FamilyInv: what a     *)
(* transaction checked of a row it locked stays true while it holds the    *)
(* lock.                                                                   *)
(*                                                                         *)
(* An invite code makes one member, open codes keep their ceiling, and     *)
(* transfers and codes never wait for each other in a circle: CodeInv says *)
(* what is known of a locked code, and in which order rows are locked.     *)
(*                                                                         *)
(* An account is in the family once: SeatInv says that an uncommitted      *)
(* invitation is its account's only one, and alone.                        *)
(***************************************************************************)
EXTENDS FamilyMembership, FiniteSetTheorems, TLAPS

\* The variables of the transactions, and the rows, each in their domain.
TxnTypes ==
  /\ lock \in [Rows -> Txns \cup {None}]
  /\ op \in [Txns -> Operations \cup {"none"}]
  /\ pc \in [Txns -> Steps]
  /\ self \in [Txns -> Members \cup {None}]
  /\ who \in [Txns -> Subjects \cup {None}]
  /\ item \in [Txns -> Rows \cup {None}]
  /\ asOf \in [Txns -> SUBSET (Cases \cup Codes)]

RowTypes ==
  /\ role \in [Members -> Roles]
  /\ status \in [Members -> MemberStatus]
  /\ primary \in Members
  /\ case \in [Cases -> [status : CaseStatus, initiator : Members \cup {None},
                       candidate : Members \cup {None}]]
  /\ code \in [Codes -> [status : CodeStatus, role : InviteRoles \cup {"none"}]]
  /\ lapsed \subseteq Cases \cup Codes
  /\ joinedBy \in [Members -> Codes \cup {None}]

\* What an invariant of the family says of the rows alone.
RowFacts == RowTypes /\ OfficeHeld /\ PendingIsThePrimarys /\ PendingNamesMembers

LEMMA Parts == FamilyInv <=> (TxnTypes /\ RowFacts /\ OwnsItem /\ ChecksHold)
<1> QED BY DEF FamilyInv, TypeOK, TxnTypes, RowTypes, RowFacts

LEMMA NextParts == FamilyInv' <=> (TxnTypes' /\ RowFacts' /\ OwnsItem' /\ ChecksHold')
<1> QED BY DEF FamilyInv, TypeOK, TxnTypes, RowTypes, RowFacts

\* A step of t that leaves the other transactions and what they locked alone keeps
\* what they checked.
LEMMA OthersKeep ==
  ASSUME TxnTypes, RowFacts, OwnsItem, ChecksHold, NEW t \in Txns,
         \A u \in Txns \ {t} : /\ op'[u] = op[u] /\ pc'[u] = pc[u]
                               /\ self'[u] = self[u] /\ item'[u] = item[u],
         \A u \in Txns \ {t}, x \in Rows : lock[x] = u => lock'[x] = u,
         \A u \in Txns \ {t}, m \in Members :
           lock[m] = u /\ status[m] # "absent" => role'[m] = role[m] /\ status'[m] = status[m],
         \A u \in Txns \ {t}, c \in Cases : lock[c] = u /\ c \in Pending => case'[c] = case[c],
         \A u \in Txns \ {t} : lock[Family] = u => primary' = primary,
         Owns(t)', Checks(t)'
  PROVE  OwnsItem' /\ ChecksHold'
<1>1. ASSUME NEW u \in Txns \ {t} PROVE Owns(u)'
  BY DEF OwnsItem, Owns
<1>2. ASSUME NEW u \in Txns \ {t} PROVE Checks(u)'
  <2>0. Owns(u) /\ Checks(u)
    BY DEF OwnsItem, ChecksHold
  <2>1. At(u, "revoke", "commit")' =>
          /\ lock'[item'[u]] = u
          /\ role'[item'[u]] # "primary_guardian"
          /\ status'[item'[u]] \in {"invited", "active"}
    BY <2>0 DEF Checks, Owns, At, Rows
  <2>2. op'[u] = "createTransfer" =>
          /\ pc'[u] \in {"lockPrimary", "lockCandidate", "write"} => lock'[Family] = u
          /\ pc'[u] \in {"lockCandidate", "write"} => primary' = self'[u]
    BY <2>0 DEF Checks, Rows
  <2>3. op'[u] = "acceptTransfer" =>
          /\ pc'[u] \in {"lockFamily", "lockPrimary", "lockCandidate"} =>
               lock'[item'[u]] = u /\ item'[u] \in Pending'
          /\ pc'[u] \in {"lockPrimary", "lockCandidate"} => lock'[Family] = u
          /\ pc'[u] = "lockCandidate" => lock'[primary'] = u
    BY <2>0 DEF Checks, Owns, Rows, Pending, RowFacts, RowTypes
  <2>4. At(u, "cancelTransfer", "commit")' =>
          /\ lock'[item'[u]] = u
          /\ item'[u] \in Pending'
          /\ case'[item'[u]].initiator = self'[u]
    BY <2>0 DEF Checks, Owns, At, Rows, Pending
  <2>5. At(u, "accept", "lockFamily")' => lock'[item'[u]] = u
    BY <2>0 DEF Checks, Owns, At, Rows
  <2> QED BY <2>1, <2>2, <2>3, <2>4, <2>5 DEF Checks
<1> QED BY <1>1, <1>2 DEF OwnsItem, ChecksHold

\* The same for a step that writes no row.
LEMMA QuietStep ==
  ASSUME TxnTypes, RowFacts, OwnsItem, ChecksHold, NEW t \in Txns, UNCHANGED rows,
         \A u \in Txns \ {t} : /\ op'[u] = op[u] /\ pc'[u] = pc[u]
                               /\ self'[u] = self[u] /\ item'[u] = item[u],
         \A u \in Txns \ {t}, x \in Rows : lock[x] = u => lock'[x] = u,
         Owns(t)', Checks(t)'
  PROVE  RowFacts' /\ OwnsItem' /\ ChecksHold'
<1>1. RowFacts'
  BY DEF rows, RowFacts, RowTypes, OfficeHeld, PendingIsThePrimarys, PendingNamesMembers,
     Pending
<1>2. role' = role /\ status' = status /\ case' = case /\ primary' = primary
  BY DEF rows
<1>3. \A u \in Txns \ {t}, m \in Members :
        lock[m] = u /\ status[m] # "absent" => role'[m] = role[m] /\ status'[m] = status[m]
  BY <1>2
<1>4. \A u \in Txns \ {t}, c \in Cases : lock[c] = u /\ c \in Pending => case'[c] = case[c]
  BY <1>2
<1>5. \A u \in Txns \ {t} : lock[Family] = u => primary' = primary
  BY <1>2
<1> QED BY <1>1, <1>3, <1>4, <1>5, OthersKeep

-----------------------------------------------------------------------------
(* The three ways a transaction moves.                                     *)

\* Ending lets go of its own locks only, and leaves nothing checked.
LEMMA EndStep ==
  ASSUME TxnTypes, NEW t \in Txns, End(t)
  PROVE  /\ TxnTypes'
         /\ Owns(t)' /\ Checks(t)'
         /\ \A u \in Txns \ {t} : /\ op'[u] = op[u] /\ pc'[u] = pc[u]
                                  /\ self'[u] = self[u] /\ item'[u] = item[u]
         /\ \A u \in Txns \ {t}, x \in Rows : lock[x] = u => lock'[x] = u
<1>1. TxnTypes'
  BY DEF TxnTypes, End, Steps
<1>2. op'[t] = "none" /\ pc'[t] = "idle"
  BY DEF TxnTypes, End
<1>3. Owns(t)' /\ Checks(t)'
  BY <1>2 DEF Owns, Checks, At
<1> QED BY <1>1, <1>3 DEF TxnTypes, End

LEMMA RefuseStep ==
  ASSUME FamilyInv, NEW t \in Txns, Refuse(t)
  PROVE  FamilyInv'
<1>1. TxnTypes /\ RowFacts /\ OwnsItem /\ ChecksHold /\ End(t) /\ UNCHANGED rows
  BY Parts DEF Refuse
<1>2. /\ TxnTypes'
      /\ Owns(t)' /\ Checks(t)'
      /\ \A u \in Txns \ {t} : /\ op'[u] = op[u] /\ pc'[u] = pc[u]
                               /\ self'[u] = self[u] /\ item'[u] = item[u]
      /\ \A u \in Txns \ {t}, x \in Rows : lock[x] = u => lock'[x] = u
  BY <1>1, EndStep
<1>3. RowFacts' /\ OwnsItem' /\ ChecksHold'
  BY <1>1, <1>2, QuietStep
<1> QED BY <1>2, <1>3, NextParts

\* Going to the next statement, with the locks it had or one more that was free.
LEMMA GoStep ==
  ASSUME FamilyInv, NEW t \in Txns, NEW step \in Steps,
         \/ lock' = lock
         \/ \E x \in Rows : Free(t, x) /\ lock' = [lock EXCEPT ![x] = t],
         pc' = [pc EXCEPT ![t] = step],
         UNCHANGED <<rows, op, self, who, item, asOf>>,
         Owns(t)', Checks(t)'
  PROVE  FamilyInv'
<1>1. TxnTypes /\ RowFacts /\ OwnsItem /\ ChecksHold /\ UNCHANGED rows
  BY Parts
<1>2. TxnTypes'
  BY <1>1 DEF TxnTypes
<1>3. \A u \in Txns \ {t} : /\ op'[u] = op[u] /\ pc'[u] = pc[u]
                            /\ self'[u] = self[u] /\ item'[u] = item[u]
  BY <1>1 DEF TxnTypes
<1>4. \A u \in Txns \ {t}, y \in Rows : lock[y] = u => lock'[y] = u
  BY <1>1, RowsAssumption DEF TxnTypes, Free
<1>5. RowFacts' /\ OwnsItem' /\ ChecksHold'
  BY <1>1, <1>3, <1>4, QuietStep
<1> QED BY <1>2, <1>5, NextParts

LEMMA TakeStep ==
  ASSUME FamilyInv, NEW t \in Txns, NEW x \in Rows, NEW step \in Steps,
         Free(t, x), Take(t, x, step), Owns(t)', Checks(t)'
  PROVE  FamilyInv'
<1>1. /\ \E y \in Rows : Free(t, y) /\ lock' = [lock EXCEPT ![y] = t]
      /\ pc' = [pc EXCEPT ![t] = step]
      /\ UNCHANGED <<rows, op, self, who, item, asOf>>
  BY DEF Take
<1> QED BY <1>1, GoStep

\* Beginning checks nothing under a lock.
LEMMA BeginStep ==
  ASSUME FamilyInv, NEW t \in Txns, NEW kind \in Operations, NEW step \in Steps,
         NEW me \in Members \cup {None}, NEW account \in Subjects \cup {None},
         NEW row \in Rows \cup {None}, Begin(t, kind, step, me, account, row),
         Owns(t)',
         kind \in {"revoke", "cancelTransfer"} => step # "commit",
         kind = "accept" => step = "lockItem",
         kind = "createTransfer" => step = "lockFamily",
         kind = "acceptTransfer" => step = "lockItem"
  PROVE  FamilyInv'
<1>1. TxnTypes /\ RowFacts /\ OwnsItem /\ ChecksHold /\ UNCHANGED rows /\ lock' = lock
  BY Parts DEF Begin
<1>2. TxnTypes'
  BY <1>1 DEF Begin, TxnTypes, RowFacts, RowTypes
<1>3. \A u \in Txns \ {t} : /\ op'[u] = op[u] /\ pc'[u] = pc[u]
                            /\ self'[u] = self[u] /\ item'[u] = item[u]
  BY <1>1 DEF Begin, TxnTypes
<1>4. \A u \in Txns \ {t}, x \in Rows : lock[x] = u => lock'[x] = u
  BY <1>1
<1>5. op'[t] = kind /\ pc'[t] = step
  BY <1>1 DEF Begin, TxnTypes
<1>6. Checks(t)'
  BY <1>5 DEF Checks, At
<1>7. RowFacts' /\ OwnsItem' /\ ChecksHold'
  BY <1>1, <1>3, <1>4, <1>6, QuietStep
<1> QED BY <1>2, <1>7, NextParts

LEMMA BeginSomeStep ==
  ASSUME FamilyInv, NEW t \in Txns, BeginSome(t)
  PROVE  FamilyInv'
<1>0. TxnTypes /\ RowFacts /\ ActivePrimary \subseteq Members /\ OpenCodes(lapsed) \subseteq Codes
  BY Parts DEF ActivePrimary, OpenCodes
<1> USE RowsAssumption DEF Operations, Steps, Rows
<1>1. ASSUME NEW kind \in Operations, NEW step, NEW me, NEW account, NEW row,
             Begin(t, kind, step, me, account, row)
      PROVE  op'[t] = kind /\ item'[t] = row /\ self'[t] = me
  BY <1>0, <1>1 DEF Begin, TxnTypes
<1>2. CASE BeginInvite(t)
  <2>1. PICK me \in ActivePrimary, s \in Subjects : Begin(t, "invite", "write", me, s, None)
    BY <1>2 DEF BeginInvite
  <2>2. Owns(t)'
    BY <2>1, <1>1 DEF Owns
  <2> QED BY <1>0, <2>1, <2>2, BeginStep
<1>3. CASE BeginAccept(t)
  <2>1. PICK m \in Members : Begin(t, "accept", "lockItem", None, SubjectOf[m], m)
    BY <1>3 DEF BeginAccept
  <2>2. Owns(t)'
    BY <2>1, <1>1 DEF Owns
  <2> QED BY <1>0, <2>1, <2>2, BeginStep, SubjectAssumption
<1>4. CASE BeginRevoke(t)
  <2>1. PICK me \in ActivePrimary, m \in Members : Begin(t, "revoke", "lockItem", me, None, m)
    BY <1>4 DEF BeginRevoke
  <2>2. Owns(t)'
    BY <2>1, <1>1 DEF Owns
  <2> QED BY <1>0, <2>1, <2>2, BeginStep
<1>5. CASE BeginCreate(t)
  <2>1. PICK me \in ActivePrimary, m \in Members :
          Begin(t, "createTransfer", "lockFamily", me, None, m)
    BY <1>5 DEF BeginCreate
  <2>2. Owns(t)'
    BY <1>0, <2>1, <1>1 DEF Owns
  <2> QED BY <1>0, <2>1, <2>2, BeginStep
<1>6. CASE BeginAcceptTransfer(t)
  <2>1. PICK c \in Cases, s \in Subjects : Begin(t, "acceptTransfer", "lockItem", None, s, c)
    BY <1>6 DEF BeginAcceptTransfer
  <2>2. Owns(t)'
    BY <2>1, <1>1 DEF Owns
  <2> QED BY <1>0, <2>1, <2>2, BeginStep
<1>7. CASE BeginCancel(t)
  <2>1. PICK me \in ActivePrimary, c \in Cases :
          Begin(t, "cancelTransfer", "lockItem", me, None, c)
    BY <1>7 DEF BeginCancel
  <2>2. Owns(t)'
    BY <1>0, <2>1, <1>1 DEF Owns
  <2> QED BY <1>0, <2>1, <2>2, BeginStep
<1>8. CASE BeginIssue(t)
  <2>1. PICK me \in ActivePrimary : Begin(t, "issueCode", "lockFamily", me, None, None)
    BY <1>8 DEF BeginIssue
  <2>2. Owns(t)'
    BY <2>1, <1>1 DEF Owns
  <2> QED BY <1>0, <2>1, <2>2, BeginStep
<1>9. CASE BeginRevokeCode(t)
  <2>1. PICK me \in ActivePrimary, c \in Codes :
          Begin(t, "revokeCode", "lockItem", me, None, c)
    BY <1>9 DEF BeginRevokeCode
  <2>2. Owns(t)'
    BY <2>1, <1>1 DEF Owns
  <2> QED BY <1>0, <2>1, <2>2, BeginStep
<1>10. CASE BeginRedeem(t)
  <2>1. PICK s \in Subjects, c \in OpenCodes(lapsed) :
          Begin(t, "redeemCode", "lockItem", None, s, c)
    BY <1>10 DEF BeginRedeem
  <2>2. Owns(t)'
    BY <1>0, <2>1, <1>1 DEF Owns
  <2> QED BY <1>0, <2>1, <2>2, BeginStep
<1> QED BY <1>2, <1>3, <1>4, <1>5, <1>6, <1>7, <1>8, <1>9, <1>10 DEF BeginSome

-----------------------------------------------------------------------------
(* The steps that write.                                                   *)

\* A last step that leaves alone what the others have locked.
LEMMA WriteStep ==
  ASSUME FamilyInv, NEW t \in Txns, End(t), RowFacts',
         \A u \in Txns \ {t}, m \in Members :
           lock[m] = u /\ status[m] # "absent" => role'[m] = role[m] /\ status'[m] = status[m],
         \A u \in Txns \ {t}, c \in Cases : lock[c] = u /\ c \in Pending => case'[c] = case[c],
         \A u \in Txns \ {t} : lock[Family] = u => primary' = primary
  PROVE  FamilyInv'
<1>1. TxnTypes /\ RowFacts /\ OwnsItem /\ ChecksHold
  BY Parts
<1>2. /\ TxnTypes'
      /\ Owns(t)' /\ Checks(t)'
      /\ \A u \in Txns \ {t} : /\ op'[u] = op[u] /\ pc'[u] = pc[u]
                               /\ self'[u] = self[u] /\ item'[u] = item[u]
      /\ \A u \in Txns \ {t}, x \in Rows : lock[x] = u => lock'[x] = u
  BY <1>1, EndStep
<1>3. OwnsItem' /\ ChecksHold'
  BY <1>1, <1>2, OthersKeep
<1> QED BY <1>2, <1>3, NextParts

\* A new member has not the office of primary guardian.
LEMMA NewMember ==
  ASSUME FamilyInv, NEW t \in Txns, End(t), NEW m \in Members, status[m] = "absent",
         NEW r \in InviteRoles \cup {"none"}, NEW st \in {"invited", "active"},
         role' = [role EXCEPT ![m] = r], status' = [status EXCEPT ![m] = st],
         UNCHANGED <<primary, case, lapsed>>,
         code' \in [Codes -> [status : CodeStatus, role : InviteRoles \cup {"none"}]],
         joinedBy' \in [Members -> Codes \cup {None}]
  PROVE  FamilyInv'
<1>1. RowFacts
  BY Parts
<1>2. r # "primary_guardian" /\ r \in Roles /\ st \in MemberStatus /\ m # primary
  BY <1>1, RolesAssumption DEF Roles, MemberStatus, RowFacts, OfficeHeld
<1>3. RowTypes'
  BY <1>1, <1>2 DEF RowFacts, RowTypes
<1>4. OfficeHeld'
  <2>1. \A n \in Members : role'[n] = "primary_guardian" <=> role[n] = "primary_guardian"
    BY <1>1, <1>2 DEF RowFacts, RowTypes, OfficeHeld
  <2>2. status'[primary'] = "active"
    BY <1>1, <1>2 DEF RowFacts, RowTypes, OfficeHeld
  <2> QED BY <1>1, <2>1, <2>2 DEF RowFacts, OfficeHeld
<1>5. PendingIsThePrimarys' /\ PendingNamesMembers'
  BY <1>1 DEF RowFacts, PendingIsThePrimarys, PendingNamesMembers, Pending
<1>6. \A u \in Txns \ {t}, n \in Members :
        lock[n] = u /\ status[n] # "absent" => role'[n] = role[n] /\ status'[n] = status[n]
  BY <1>1 DEF RowFacts, RowTypes
<1> QED BY <1>3, <1>4, <1>5, <1>6, WriteStep DEF RowFacts

\* Another status for a member who is not the primary guardian.
LEMMA NewStatus ==
  ASSUME FamilyInv, NEW t \in Txns, End(t), NEW m \in Members, lock[m] = t,
         status[m] # "absent", m # primary \/ status[m] # "active",
         NEW st \in MemberStatus, status' = [status EXCEPT ![m] = st],
         UNCHANGED <<role, primary, case, code, lapsed, joinedBy>>
  PROVE  FamilyInv'
<1>1. RowFacts
  BY Parts
<1>2. RowTypes'
  BY <1>1 DEF RowFacts, RowTypes
<1>3. OfficeHeld'
  BY <1>1 DEF RowFacts, RowTypes, OfficeHeld
<1>4. PendingIsThePrimarys' /\ PendingNamesMembers'
  BY <1>1 DEF RowFacts, PendingIsThePrimarys, PendingNamesMembers, Pending
<1>5. \A u \in Txns \ {t}, n \in Members :
        lock[n] = u /\ status[n] # "absent" => role'[n] = role[n] /\ status'[n] = status[n]
  BY <1>1 DEF RowFacts, RowTypes
<1> QED BY <1>2, <1>3, <1>4, <1>5, WriteStep DEF RowFacts

\* A pending case that is closed under its lock.
LEMMA CloseCase ==
  ASSUME FamilyInv, NEW t \in Txns, End(t), NEW c \in Pending, lock[c] = t,
         NEW st \in CaseStatus \ {"pending_acceptance"},
         case' = [case EXCEPT ![c].status = st],
         UNCHANGED <<role, status, primary, code, lapsed, joinedBy>>
  PROVE  FamilyInv'
<1>1. RowFacts /\ c \in Cases
  BY Parts DEF Pending
<1>2. RowTypes'
  BY <1>1 DEF RowFacts, RowTypes
<1>3. OfficeHeld'
  BY <1>1 DEF RowFacts, OfficeHeld
<1>4. Pending' = {}
  BY <1>1 DEF RowFacts, RowTypes, PendingIsThePrimarys, Pending
<1>5. PendingIsThePrimarys' /\ PendingNamesMembers'
  BY <1>4 DEF PendingIsThePrimarys, PendingNamesMembers
<1>6. \A u \in Txns \ {t}, d \in Cases : lock[d] = u /\ d \in Pending => case'[d] = case[d]
  BY <1>1 DEF RowFacts, RowTypes
<1> QED BY <1>2, <1>3, <1>5, <1>6, WriteStep DEF RowFacts

LEMMA InsertCaseStep ==
  ASSUME FamilyInv, NEW t \in Txns, InsertCase(t), ~Refuse(t)
  PROVE  FamilyInv'
<1>1. RowFacts /\ Owns(t) /\ Checks(t)
  BY Parts DEF OwnsItem, ChecksHold
<1>2. /\ At(t, "createTransfer", "write") /\ Pending = {} /\ End(t)
      /\ UNCHANGED <<role, status, primary, code, lapsed, joinedBy>>
  BY DEF InsertCase
<1>3. PICK c \in Cases :
        /\ case[c] = NoCase
        /\ case' = [case EXCEPT ![c] =
             [status |-> "pending_acceptance", initiator |-> self[t], candidate |-> item[t]]]
  BY DEF InsertCase
<1>4. primary = self[t] /\ item[t] \in Members /\ self[t] \in Members
  BY <1>1, <1>2 DEF At, Checks, Owns
<1>5. RowTypes'
  BY <1>1, <1>2, <1>3, <1>4 DEF RowFacts, RowTypes, CaseStatus
<1>6. OfficeHeld'
  BY <1>1, <1>2 DEF RowFacts, OfficeHeld
<1>7. Pending' = {c} /\ case'[c].initiator = primary' /\ case'[c].candidate \in Members
  BY <1>1, <1>2, <1>3, <1>4 DEF RowFacts, RowTypes, Pending
<1>8. PendingIsThePrimarys' /\ PendingNamesMembers'
  BY <1>4, <1>5, <1>7 DEF PendingIsThePrimarys, PendingNamesMembers, RowTypes
<1>9. \A u \in Txns \ {t}, d \in Cases : lock[d] = u /\ d \in Pending => case'[d] = case[d]
  BY <1>2
<1> QED BY <1>2, <1>5, <1>6, <1>8, <1>9, WriteStep DEF RowFacts

\* The swap of the two roles: t holds the case, the family and the primary's row,
\* and nobody else the candidate's.
LEMMA HandOverStep ==
  ASSUME FamilyInv, NEW t \in Txns, AcceptTransfer(t)
  PROVE  FamilyInv'
<1> DEFINE c == item[t]
           from == case[c].initiator
           to == case[c].candidate
<1>1. RowFacts /\ TxnTypes /\ Owns(t) /\ Checks(t)
  BY Parts DEF OwnsItem, ChecksHold
<1>2. /\ At(t, "acceptTransfer", "lockCandidate") /\ Free(t, to) /\ End(t)
      /\ UNCHANGED <<status, code, lapsed, joinedBy>>
  BY DEF AcceptTransfer
<1>3. c \in Pending /\ lock[c] = t /\ lock[Family] = t /\ lock[primary] = t
  BY <1>1, <1>2 DEF At, Checks
<1>4. c \in Cases /\ from = primary /\ to \in Members
  BY <1>1, <1>3 DEF RowFacts, PendingIsThePrimarys, PendingNamesMembers, Pending
<1>5. CASE case' = [case EXCEPT ![c].status = "expired"] /\ UNCHANGED <<role, primary>>
  BY <1>2, <1>3, <1>5, CloseCase DEF CaseStatus
<1>6. CASE UNCHANGED <<role, primary, case>>
  <2>1. Refuse(t)
    BY <1>2, <1>6 DEF Refuse, rows
  <2> QED BY <2>1, RefuseStep
<1>7. CASE /\ role[to] = "co_guardian"
           /\ status[to] = "active"
           /\ role' = [role EXCEPT ![from] = "co_guardian", ![to] = "primary_guardian"]
           /\ primary' = to
           /\ case' = [case EXCEPT ![c].status = "completed"]
  <2>1. to # primary
    BY <1>1, <1>4, <1>7 DEF RowFacts, OfficeHeld
  <2>2. RowTypes'
    BY <1>1, <1>2, <1>4, <1>7 DEF RowFacts, RowTypes, Roles, CaseStatus
  <2>3. OfficeHeld'
    <3>1. \A m \in Members : role'[m] = "primary_guardian" <=> m = to
      BY <1>1, <1>4, <1>7, <2>1 DEF RowFacts, RowTypes, OfficeHeld
    <3> QED BY <1>2, <1>4, <1>7, <3>1 DEF OfficeHeld
  <2>4. Pending' = {}
    BY <1>1, <1>3, <1>4, <1>7 DEF RowFacts, RowTypes, PendingIsThePrimarys, Pending
  <2>5. PendingIsThePrimarys' /\ PendingNamesMembers'
    BY <2>4 DEF PendingIsThePrimarys, PendingNamesMembers
  <2>6. \A u \in Txns \ {t}, m \in Members :
          lock[m] = u /\ status[m] # "absent" => role'[m] = role[m] /\ status'[m] = status[m]
    <3>1. \A u \in Txns \ {t} : lock[from] # u /\ lock[to] # u
      BY <1>2, <1>3, <1>4, RowsAssumption DEF Free
    <3> QED BY <1>1, <1>2, <1>4, <1>7, <3>1 DEF RowFacts, RowTypes
  <2>7. \A u \in Txns \ {t}, d \in Cases : lock[d] = u /\ d \in Pending => case'[d] = case[d]
    BY <1>1, <1>3, <1>7 DEF RowFacts, RowTypes
  <2>8. \A u \in Txns \ {t} : lock[Family] = u => primary' = primary
    BY <1>3
  <2> QED BY <1>2, <2>2, <2>3, <2>5, <2>6, <2>7, <2>8, WriteStep DEF RowFacts
<1> QED BY <1>5, <1>6, <1>7 DEF AcceptTransfer

\* A step that writes invite codes only.
LEMMA CodeStep ==
  ASSUME FamilyInv, NEW t \in Txns, End(t),
         code' \in [Codes -> [status : CodeStatus, role : InviteRoles \cup {"none"}]],
         UNCHANGED <<role, status, primary, case, lapsed, joinedBy>>
  PROVE  FamilyInv'
<1>1. RowFacts
  BY Parts
<1>2. RowFacts'
  BY <1>1 DEF RowFacts, RowTypes, OfficeHeld, PendingIsThePrimarys, PendingNamesMembers,
     Pending
<1>3. \A u \in Txns \ {t}, m \in Members :
        lock[m] = u /\ status[m] # "absent" => role'[m] = role[m] /\ status'[m] = status[m]
  OBVIOUS
<1>4. \A u \in Txns \ {t}, d \in Cases : lock[d] = u /\ d \in Pending => case'[d] = case[d]
  OBVIOUS
<1> QED BY <1>2, <1>3, <1>4, WriteStep

-----------------------------------------------------------------------------
(* Every step of a transaction.                                            *)

LEMMA StepKeeps ==
  ASSUME FamilyInv, NEW t \in Txns, Step(t)
  PROVE  FamilyInv'
<1>0. RowFacts /\ TxnTypes /\ Owns(t) /\ Checks(t)
  BY Parts DEF OwnsItem, ChecksHold
<1>1. \A x \in Rows, step \in Steps :
        Free(t, x) /\ Take(t, x, step) /\ Owns(t)' /\ Checks(t)' => FamilyInv'
  BY TakeStep
<1>2. ASSUME NEW x \in Rows, NEW step \in Steps, NEW ok \in BOOLEAN,
             LockAndCheck(t, x, ok, step),
             ok /\ Take(t, x, step) => Checks(t)'
      PROVE  FamilyInv'
  <2>1. CASE ok /\ Free(t, x) /\ Take(t, x, step)
    <3>1. Owns(t)'
      BY <1>0, <2>1 DEF Take, Owns
    <3> QED BY <1>1, <1>2, <2>1, <3>1
  <2>2. CASE Refuse(t)
    BY <2>2, RefuseStep
  <2> QED BY <1>2, <2>1, <2>2 DEF LockAndCheck
<1>3. CASE InsertInvite(t)
  <2>1. CASE Refuse(t)
    BY <2>1, RefuseStep
  <2>2. CASE /\ At(t, "invite", "write") /\ pc' = [pc EXCEPT ![t] = "commit"]
             /\ UNCHANGED <<rows, lock, op, self, who, item, asOf>>
    <3>1. Owns(t)' /\ Checks(t)'
      BY <1>0, <2>2 DEF Owns, Checks, At
    <3> QED BY <2>2, <3>1, GoStep DEF Steps
  <2> QED BY <1>3, <2>1, <2>2 DEF InsertInvite
<1>4. CASE CommitInvite(t)
  <2>1. PICK m \in Fresh(who[t]), r \in InviteRoles :
          /\ role' = [role EXCEPT ![m] = r]
          /\ status' = [status EXCEPT ![m] = "invited"]
    BY <1>4 DEF CommitInvite
  <2>2. End(t) /\ UNCHANGED <<primary, case, code, lapsed, joinedBy>>
    BY <1>4 DEF CommitInvite
  <2> QED BY <1>0, <2>1, <2>2, NewMember DEF RowFacts, RowTypes, Fresh
<1>5. CASE LockInvitation(t)
  <2>1. At(t, "accept", "lockItem") /\ item[t] \in Rows
    BY <1>0, <1>5 DEF LockInvitation, At, Owns, Rows
  <2>2. Take(t, item[t], "lockFamily") => Checks(t)'
    BY <1>0, <2>1 DEF Take, Checks, At, TxnTypes
  <2> QED BY <1>2, <1>5, <2>1, <2>2 DEF LockInvitation, Steps
<1>6. CASE AcceptInvitation(t)
  <2>1. CASE Refuse(t)
    BY <2>1, RefuseStep
  <2>2. CASE ~Refuse(t)
    <3>1. /\ At(t, "accept", "lockFamily") /\ status[item[t]] = "invited"
          /\ status' = [status EXCEPT ![item[t]] = "active"] /\ End(t)
          /\ UNCHANGED <<role, primary, case, code, lapsed, joinedBy>>
      BY <1>6, <2>2 DEF AcceptInvitation
    <3>2. item[t] \in Members /\ lock[item[t]] = t
      BY <1>0, <3>1 DEF Owns, Checks, At
    <3> QED BY <3>1, <3>2, NewStatus DEF MemberStatus
  <2> QED BY <2>1, <2>2
<1>7. CASE LockMembership(t)
  <2>1. At(t, "revoke", "lockItem") /\ item[t] \in Rows
    BY <1>0, <1>7 DEF LockMembership, At, Owns, Rows
  <2>2. /\ role[item[t]] # "primary_guardian" /\ status[item[t]] \in {"invited", "active"}
        /\ Take(t, item[t], "commit")
        => Checks(t)'
    BY <1>0, <2>1 DEF Take, Checks, At, TxnTypes, rows
  <2> QED BY <1>2, <1>7, <2>1, <2>2 DEF LockMembership, Steps
<1>8. CASE RevokeMembership(t)
  <2>1. /\ At(t, "revoke", "commit") /\ End(t)
        /\ UNCHANGED <<role, primary, case, code, lapsed, joinedBy>>
    BY <1>8 DEF RevokeMembership
  <2>2. /\ item[t] \in Members /\ lock[item[t]] = t
        /\ role[item[t]] # "primary_guardian" /\ status[item[t]] # "absent"
    BY <1>0, <2>1 DEF Owns, Checks, At
  <2>3. item[t] # primary
    BY <1>0, <2>2 DEF RowFacts, OfficeHeld
  <2>4. PICK st \in {"revoked", "removed"} : status' = [status EXCEPT ![item[t]] = st]
    BY <1>8 DEF RevokeMembership
  <2> QED BY <2>1, <2>2, <2>3, <2>4, NewStatus DEF MemberStatus
<1>9. CASE CreateLocksFamily(t)
  <2>1. At(t, "createTransfer", "lockFamily")
    BY <1>9 DEF CreateLocksFamily
  <2>2. Take(t, Family, "lockPrimary") => Checks(t)'
    BY <1>0, <2>1 DEF Take, Checks, At, TxnTypes, Rows
  <2> QED BY <1>2, <1>9, <2>1, <2>2 DEF CreateLocksFamily, Steps, Rows
<1>10. CASE CreateLocksPrimary(t)
  <2>1. At(t, "createTransfer", "lockPrimary") /\ primary \in Rows
    BY <1>0, <1>10 DEF CreateLocksPrimary, Rows, RowFacts, RowTypes
  <2>2. primary = self[t] /\ Take(t, primary, "lockCandidate") => Checks(t)'
    BY <1>0, <2>1 DEF Take, Checks, At, TxnTypes, Rows, rows
  <2> QED BY <1>2, <1>10, <2>1, <2>2 DEF CreateLocksPrimary, Steps
<1>11. CASE CreateLocksCandidate(t)
  <2>1. At(t, "createTransfer", "lockCandidate") /\ item[t] \in Rows
    BY <1>0, <1>11 DEF CreateLocksCandidate, At, Owns, Rows
  <2>2. Take(t, item[t], "write") => Checks(t)'
    BY <1>0, <2>1 DEF Take, Checks, At, TxnTypes, Rows, rows
  <2> QED BY <1>2, <1>11, <2>1, <2>2 DEF CreateLocksCandidate, Steps
<1>12. CASE InsertCase(t)
  BY <1>12, RefuseStep, InsertCaseStep
<1>13. CASE AcceptLocksCase(t)
  <2>1. At(t, "acceptTransfer", "lockItem") /\ item[t] \in Rows /\ item[t] \in Cases
    BY <1>0, <1>13 DEF AcceptLocksCase, At, Owns, Rows
  <2>2. case[item[t]].status = "pending_acceptance" /\ Take(t, item[t], "lockFamily")
        => Checks(t)'
    BY <1>0, <2>1 DEF Take, Checks, At, TxnTypes, rows, Pending
  <2> QED BY <1>2, <1>13, <2>1, <2>2 DEF AcceptLocksCase, Steps
<1>14. CASE AcceptLocksFamily(t)
  <2>1. At(t, "acceptTransfer", "lockFamily")
    BY <1>14 DEF AcceptLocksFamily
  <2>2. Take(t, Family, "lockPrimary") => Checks(t)'
    BY <1>0, <2>1, RowsAssumption DEF Take, Checks, At, TxnTypes, Rows, rows, Pending, Owns
  <2> QED BY <1>2, <1>14, <2>1, <2>2 DEF AcceptLocksFamily, Steps, Rows
<1>15. CASE AcceptLocksPrimary(t)
  <2>1. At(t, "acceptTransfer", "lockPrimary") /\ primary \in Rows
    BY <1>0, <1>15 DEF AcceptLocksPrimary, Rows, RowFacts, RowTypes
  <2>2. Take(t, primary, "lockCandidate") => Checks(t)'
    BY <1>0, <2>1, RowsAssumption DEF Take, Checks, At, TxnTypes, Rows, rows, Pending, Owns
  <2> QED BY <1>2, <1>15, <2>1, <2>2 DEF AcceptLocksPrimary, Steps
<1>16. CASE AcceptTransfer(t)
  BY <1>16, HandOverStep
<1>17. CASE WriteCancellation(t)
  <2>1. At(t, "cancelTransfer", "lockItem") /\ item[t] \in Rows /\ item[t] \in Cases
    BY <1>0, <1>17 DEF WriteCancellation, At, Owns, Rows
  <2>2. /\ case[item[t]].initiator = self[t]
        /\ case[item[t]].status = "pending_acceptance"
        /\ Take(t, item[t], "commit")
        => Checks(t)'
    BY <1>0, <2>1 DEF Take, Checks, At, TxnTypes, rows, Pending
  <2> QED BY <1>2, <1>17, <2>1, <2>2 DEF WriteCancellation, Steps
<1>18. CASE CommitCancellation(t)
  <2>1. /\ At(t, "cancelTransfer", "commit") /\ End(t)
        /\ case' = [case EXCEPT ![item[t]].status = "cancelled"]
        /\ UNCHANGED <<role, status, primary, code, lapsed, joinedBy>>
    BY <1>18 DEF CommitCancellation
  <2>2. item[t] \in Pending /\ lock[item[t]] = t
    BY <1>0, <2>1 DEF Checks
  <2> QED BY <2>1, <2>2, CloseCase DEF CaseStatus
<1>19. CASE IssueCode(t)
  <2>1. CASE Refuse(t)
    BY <2>1, RefuseStep
  <2>2. CASE ~Refuse(t)
    <3>1. End(t) /\ UNCHANGED <<role, status, primary, case, lapsed, joinedBy>>
      BY <1>19, <2>2 DEF IssueCode
    <3>2. PICK c \in Codes, r \in InviteRoles :
            code' = [code EXCEPT ![c] = [status |-> "open", role |-> r]]
      BY <1>19, <2>2 DEF IssueCode
    <3> QED BY <1>0, <3>1, <3>2, CodeStep DEF RowFacts, RowTypes, CodeStatus
  <2> QED BY <2>1, <2>2
<1>20. CASE LockCode(t)
  <2>1. At(t, "revokeCode", "lockItem") /\ item[t] \in Rows
    BY <1>0, <1>20 DEF LockCode, At, Owns, Rows
  <2>2. Take(t, item[t], "commit") => Checks(t)'
    BY <1>0, <2>1 DEF Take, Checks, At, TxnTypes
  <2> QED BY <1>2, <1>20, <2>1, <2>2 DEF LockCode, Steps
<1>21. CASE RevokeCode(t)
  <2>1. End(t) /\ UNCHANGED <<role, status, primary, case, lapsed, joinedBy>>
    BY <1>21 DEF RevokeCode
  <2>2. code' = [code EXCEPT ![item[t]].status = "revoked"]
    BY <1>21 DEF RevokeCode
  <2> QED BY <1>0, <2>1, <2>2, CodeStep DEF RowFacts, RowTypes, CodeStatus
<1>22. CASE RedeemLocksCode(t)
  <2>1. At(t, "redeemCode", "lockItem") /\ item[t] \in Rows
    BY <1>0, <1>22 DEF RedeemLocksCode, At, Owns, Rows
  <2>2. Take(t, item[t], "lockFamily") => Checks(t)'
    BY <1>0, <2>1 DEF Take, Checks, At, TxnTypes
  <2> QED BY <1>2, <1>22, <2>1, <2>2 DEF RedeemLocksCode, Steps
<1>23. CASE RedeemLocksFamily(t)
  <2>1. At(t, "redeemCode", "lockFamily")
    BY <1>23 DEF RedeemLocksFamily
  <2>2. Take(t, Family, "write") => Checks(t)'
    BY <1>0, <2>1 DEF Take, Checks, At, TxnTypes
  <2> QED BY <1>2, <1>23, <2>1, <2>2 DEF RedeemLocksFamily, Steps, Rows
<1>24. CASE RedeemCode(t)
  <2>1. CASE Refuse(t)
    BY <2>1, RefuseStep
  <2>2. CASE ~Refuse(t)
    <3>1. /\ At(t, "redeemCode", "write") /\ End(t) /\ UNCHANGED <<primary, case, lapsed>>
          /\ code' = [code EXCEPT ![item[t]].status = "redeemed"]
      BY <1>24, <2>2 DEF RedeemCode
    <3>2. PICK m \in Fresh(who[t]) :
            /\ role' = [role EXCEPT ![m] = code[item[t]].role]
            /\ status' = [status EXCEPT ![m] = "active"]
            /\ joinedBy' = [joinedBy EXCEPT ![m] = item[t]]
      BY <1>24, <2>2 DEF RedeemCode
    <3>3. item[t] \in Codes /\ m \in Members /\ status[m] = "absent"
      BY <1>0, <3>1, <3>2 DEF Owns, At, Fresh
    <3>4. code[item[t]].role \in InviteRoles \cup {"none"}
      BY <1>0, <3>3 DEF RowFacts, RowTypes
    <3>5. /\ code' \in [Codes -> [status : CodeStatus, role : InviteRoles \cup {"none"}]]
          /\ joinedBy' \in [Members -> Codes \cup {None}]
      BY <1>0, <3>1, <3>2, <3>3 DEF RowFacts, RowTypes, CodeStatus
    <3> QED BY <3>1, <3>2, <3>3, <3>4, <3>5, NewMember
  <2> QED BY <2>1, <2>2
<1>25. CASE DeadlockDetected(t)
  BY <1>25, RefuseStep DEF DeadlockDetected
<1> QED BY <1>3, <1>4, <1>5, <1>6, <1>7, <1>8, <1>9, <1>10, <1>11, <1>12, <1>13, <1>14,
        <1>15, <1>16, <1>17, <1>18, <1>19, <1>20, <1>21, <1>22, <1>23, <1>24, <1>25
     DEF Step

LEMMA InitInv == Init => FamilyInv
<1> SUFFICES ASSUME Init PROVE FamilyInv
  OBVIOUS
<1>1. TxnTypes
  BY DEF Init, TxnTypes, Operations, Steps
<1>2. RowTypes
  BY SubjectAssumption DEF Init, RowTypes, Roles, MemberStatus, NoCase, CaseStatus, NoCode,
     CodeStatus
<1>3. OfficeHeld
  BY SubjectAssumption DEF Init, OfficeHeld
<1>4. Pending = {}
  BY DEF Init, Pending, NoCase
<1>5. OwnsItem /\ ChecksHold
  BY DEF Init, OwnsItem, Owns, ChecksHold, Checks, At
<1> QED BY <1>1, <1>2, <1>3, <1>4, <1>5, Parts
     DEF RowFacts, PendingIsThePrimarys, PendingNamesMembers

\* A deadline changes nothing the invariant speaks of.
LEMMA LapseStep ==
  ASSUME FamilyInv, Lapse
  PROVE  FamilyInv'
<1>1. TxnTypes /\ RowFacts /\ OwnsItem /\ ChecksHold
  BY Parts
<1>2. UNCHANGED <<role, status, primary, case, code, joinedBy>>
      /\ UNCHANGED <<lock, op, pc, self, who, item, asOf>>
  BY DEF Lapse, txns
<1>3. lapsed' \subseteq Cases \cup Codes
  BY <1>1 DEF Lapse, RowFacts, RowTypes, Pending, OpenCodes
<1>4. TxnTypes'
  BY <1>1, <1>2 DEF TxnTypes
<1>5. RowFacts'
  BY <1>1, <1>2, <1>3 DEF RowFacts, RowTypes, OfficeHeld, PendingIsThePrimarys,
     PendingNamesMembers, Pending
<1>6. OwnsItem' /\ ChecksHold'
  BY <1>1, <1>2 DEF OwnsItem, Owns, ChecksHold, Checks, At, Pending
<1> QED BY <1>4, <1>5, <1>6, NextParts

LEMMA NextKeeps == FamilyInv /\ [Next]_vars => FamilyInv'
<1> SUFFICES ASSUME FamilyInv, [Next]_vars PROVE FamilyInv'
  OBVIOUS
<1>1. ASSUME NEW t \in Txns, BeginSome(t) PROVE FamilyInv'
  BY <1>1, BeginSomeStep
<1>2. ASSUME NEW t \in Txns, Step(t) PROVE FamilyInv'
  BY <1>2, StepKeeps
<1>3. ASSUME NEW t \in Txns, ConnectionLost(t) PROVE FamilyInv'
  BY <1>3, RefuseStep DEF ConnectionLost
<1>4. CASE UNCHANGED vars
  <2>1. UNCHANGED <<role, status, primary, case, code, lapsed, joinedBy>>
        /\ UNCHANGED <<lock, op, pc, self, who, item, asOf>>
    BY <1>4 DEF vars, rows, txns
  <2> QED BY <2>1 DEF FamilyInv, TypeOK, OfficeHeld, PendingIsThePrimarys, PendingNamesMembers,
        Pending, OwnsItem, Owns, ChecksHold, Checks, At
<1> QED BY <1>1, <1>2, <1>3, <1>4, LapseStep DEF Next

-----------------------------------------------------------------------------
(* The theorems.                                                           *)

\* FamilyInv holds always: what a transaction checked of a row it locked (a removal's
\* role and status, a transfer's case, family and primary) is true until it ends.
THEOREM FamilyInvariant == Spec => []FamilyInv
<1> QED BY InitInv, NextKeeps, PTL DEF Spec

\* Every variable keeps to its domain.
THEOREM TypeCorrect == Spec => []TypeOK
<1>1. FamilyInv => TypeOK
  BY DEF FamilyInv
<1> QED BY <1>1, FamilyInvariant, PTL

\* At every moment of every handover one active membership is the primary guardian,
\* and the family points to it.
THEOREM AlwaysOnePrimary == Spec => []OnePrimary
<1>1. FamilyInv => OnePrimary
  BY DEF FamilyInv, OfficeHeld, OnePrimary, ActivePrimary
<1> QED BY <1>1, FamilyInvariant, PTL

\* No handover leaves behind a pending transfer somebody else asked for.
THEOREM PendingCaseIsThePrimarys == Spec => []PendingIsThePrimarys
<1>1. FamilyInv => PendingIsThePrimarys
  BY DEF FamilyInv
<1> QED BY <1>1, FamilyInvariant, PTL

\* What a step does to memberships, cases and the office: one membership is invited,
\* joins or leaves, the office is handed over, or none of these.
Invites == \E m \in Members : status[m] = "absent" /\ status' = [status EXCEPT ![m] = "invited"]
Joins == \E m \in Members : /\ status[m] \in {"absent", "invited"}
                             /\ status' = [status EXCEPT ![m] = "active"]
Leaves == \E m \in Members : /\ m # primary
                              /\ \/ /\ status[m] = "active"
                                    /\ status' = [status EXCEPT ![m] = "removed"]
                                 \/ /\ status[m] = "invited"
                                    /\ status' = [status EXCEPT ![m] = "revoked"]
HandsOver == \E m \in Members : m # primary /\ status[m] = "active" /\ primary' = m
Cancels(t) == \E c \in Pending :
  /\ op[t] = "cancelTransfer" /\ item[t] = c /\ self[t] = primary
  /\ case' = [case EXCEPT ![c].status = "cancelled"]
NoneCancelled == \A c \in Cases : case'[c] = case[c] \/ case'[c].status # "cancelled"

LEMMA StepDoes ==
  ASSUME FamilyInv, NEW t \in Txns, Step(t)
  PROVE  /\ \/ (Invites \/ Joins \/ Leaves) /\ primary' = primary
            \/ (HandsOver \/ primary' = primary) /\ status' = status
         /\ Cancels(t) \/ NoneCancelled
<1>0. RowFacts /\ TxnTypes /\ Owns(t) /\ Checks(t)
  BY Parts DEF OwnsItem, ChecksHold
<1>1. CASE UNCHANGED rows
  BY <1>1 DEF rows, NoneCancelled
<1>2. CASE CommitInvite(t)
  <2>1. Invites
    BY <1>2 DEF CommitInvite, Invites, Fresh
  <2> QED BY <1>2, <2>1 DEF CommitInvite, NoneCancelled
<1>3. CASE AcceptInvitation(t) /\ ~UNCHANGED rows
  <2>1. /\ At(t, "accept", "lockFamily") /\ status[item[t]] = "invited"
        /\ status' = [status EXCEPT ![item[t]] = "active"]
        /\ UNCHANGED <<primary, case>>
    BY <1>3 DEF AcceptInvitation, Refuse
  <2>2. Joins
    BY <1>0, <2>1 DEF Joins, Owns, At
  <2> QED BY <2>1, <2>2 DEF NoneCancelled
<1>4. CASE RevokeMembership(t)
  <2>1. /\ At(t, "revoke", "commit") /\ UNCHANGED <<primary, case>>
        /\ status' = [status EXCEPT ![item[t]] = IF @ = "invited" THEN "revoked" ELSE "removed"]
    BY <1>4 DEF RevokeMembership
  <2>2. /\ item[t] \in Members /\ role[item[t]] # "primary_guardian"
        /\ status[item[t]] \in {"invited", "active"}
    BY <1>0, <2>1 DEF Owns, Checks, At
  <2>3. item[t] # primary
    BY <1>0, <2>2 DEF RowFacts, OfficeHeld
  <2>4. Leaves
    BY <1>0, <2>1, <2>2, <2>3 DEF Leaves, RowFacts, RowTypes
  <2> QED BY <2>1, <2>4 DEF NoneCancelled
<1>5. CASE InsertCase(t) /\ ~UNCHANGED rows
  <2>1. UNCHANGED <<status, primary>>
    BY <1>5 DEF InsertCase, Refuse
  <2>2. PICK c \in Cases : case' = [case EXCEPT ![c] =
          [status |-> "pending_acceptance", initiator |-> self[t], candidate |-> item[t]]]
    BY <1>5 DEF InsertCase, Refuse
  <2>3. NoneCancelled
    BY <1>0, <2>2 DEF NoneCancelled, RowFacts, RowTypes
  <2> QED BY <2>1, <2>3
<1>6. CASE AcceptTransfer(t)
  <2> DEFINE to == case[item[t]].candidate
  <2>1. status' = status /\ At(t, "acceptTransfer", "lockCandidate")
    BY <1>6 DEF AcceptTransfer
  <2>2. item[t] \in Pending
    BY <1>0, <2>1 DEF Checks, At
  <2>3. item[t] \in Cases /\ to \in Members
    BY <1>0, <2>2 DEF RowFacts, PendingNamesMembers, Pending
  <2>4. \/ primary' = primary
        \/ role[to] = "co_guardian" /\ status[to] = "active" /\ primary' = to
    BY <1>6 DEF AcceptTransfer
  <2>5. HandsOver \/ primary' = primary
    BY <1>0, <2>3, <2>4 DEF HandsOver, RowFacts, OfficeHeld
  <2>6. \/ case' = case
        \/ \E st \in {"expired", "completed"} : case' = [case EXCEPT ![item[t]].status = st]
    BY <1>6 DEF AcceptTransfer
  <2>7. NoneCancelled
    BY <1>0, <2>3, <2>6 DEF NoneCancelled, RowFacts, RowTypes
  <2> QED BY <2>1, <2>5, <2>7
<1>7. CASE CommitCancellation(t)
  <2>1. /\ At(t, "cancelTransfer", "commit") /\ UNCHANGED <<status, primary>>
        /\ case' = [case EXCEPT ![item[t]].status = "cancelled"]
    BY <1>7 DEF CommitCancellation
  <2>2. item[t] \in Pending /\ case[item[t]].initiator = self[t]
    BY <1>0, <2>1 DEF Checks
  <2>3. self[t] = primary
    BY <1>0, <2>2 DEF RowFacts, PendingIsThePrimarys
  <2> QED BY <2>1, <2>2, <2>3 DEF Cancels, At
<1>8. CASE \/ IssueCode(t) /\ ~UNCHANGED rows
           \/ RevokeCode(t)
  BY <1>8 DEF IssueCode, RevokeCode, Refuse, NoneCancelled
<1>9. CASE RedeemCode(t) /\ ~UNCHANGED rows
  <2>1. Joins
    BY <1>9 DEF RedeemCode, Refuse, Joins, Fresh
  <2> QED BY <1>9, <2>1 DEF RedeemCode, Refuse, NoneCancelled
<1>10. ASSUME NEW x, NEW ok, NEW step, LockAndCheck(t, x, ok, step)
       PROVE  UNCHANGED rows
  BY <1>10 DEF LockAndCheck, Take, Refuse
<1>11. CASE \/ LockInvitation(t) \/ LockMembership(t) \/ CreateLocksFamily(t)
            \/ CreateLocksPrimary(t) \/ CreateLocksCandidate(t) \/ AcceptLocksCase(t)
            \/ AcceptLocksFamily(t) \/ AcceptLocksPrimary(t) \/ WriteCancellation(t)
            \/ LockCode(t) \/ RedeemLocksCode(t) \/ RedeemLocksFamily(t)
  <2>1. UNCHANGED rows
    BY <1>10, <1>11 DEF LockInvitation, LockMembership, CreateLocksFamily, CreateLocksPrimary,
       CreateLocksCandidate, AcceptLocksCase, AcceptLocksFamily, AcceptLocksPrimary,
       WriteCancellation, LockCode, RedeemLocksCode, RedeemLocksFamily
  <2> QED BY <1>1, <2>1
<1>12. CASE InsertInvite(t) \/ DeadlockDetected(t)
  <2>1. UNCHANGED rows
    BY <1>12 DEF InsertInvite, DeadlockDetected, Refuse
  <2> QED BY <1>1, <2>1
<1> QED BY <1>1, <1>2, <1>3, <1>4, <1>5, <1>6, <1>7, <1>8, <1>9, <1>11, <1>12 DEF Step

\* The same of every step of the family.
LEMMA NextDoes ==
  ASSUME FamilyInv, [Next]_vars
  PROVE  /\ \/ (Invites \/ Joins \/ Leaves) /\ primary' = primary
            \/ (HandsOver \/ primary' = primary) /\ status' = status
         /\ (\E t \in Txns : Cancels(t)) \/ NoneCancelled
<1>1. ASSUME NEW t \in Txns, BeginSome(t) PROVE UNCHANGED rows
  BY <1>1 DEF BeginSome, BeginInvite, BeginAccept, BeginRevoke, BeginCreate,
     BeginAcceptTransfer, BeginCancel, BeginIssue, BeginRevokeCode, BeginRedeem, Begin
<1>2. ASSUME NEW t \in Txns, ConnectionLost(t) PROVE UNCHANGED rows
  BY <1>2 DEF ConnectionLost, Refuse
<1>3. ASSUME UNCHANGED vars PROVE UNCHANGED rows
  BY <1>3 DEF vars
<1>4. CASE Lapse
  BY <1>4 DEF Lapse, NoneCancelled
<1>5. CASE UNCHANGED rows
  BY <1>5 DEF rows, NoneCancelled
<1> QED BY <1>1, <1>2, <1>3, <1>4, <1>5, StepDoes DEF Next

\* A revoked invitation is never accepted, a removed member never comes back by the
\* same row.
THEOREM StaysOut == Spec => RemovedStaysOut
<1>1. ASSUME FamilyInv, [Next]_vars
      PROVE  \A m \in Members : status[m] \in {"revoked", "removed"} => status'[m] = status[m]
  <2>1. status \in [Members -> MemberStatus]
    BY <1>1 DEF FamilyInv, TypeOK
  <2> QED BY <1>1, <2>1, NextDoes DEF Invites, Joins, Leaves
<1> QED BY <1>1, FamilyInvariant, PTL DEF Spec, RemovedStaysOut

\* Only the current primary guardian cancels a transfer, and only a pending one: the
\* lock on the case is enough, because a handover takes it too.
THEOREM OnlyPrimaryCancels == Spec => CancelledByPrimary
<1>1. ASSUME FamilyInv, [Next]_vars
      PROVE  \A c \in Cases : case[c].status # "cancelled" /\ case'[c].status = "cancelled" =>
               /\ c \in Pending
               /\ \E t \in Txns : op[t] = "cancelTransfer" /\ item[t] = c /\ self[t] = primary
  <2>1. /\ case \in [Cases -> [status : CaseStatus, initiator : Members \cup {None},
                               candidate : Members \cup {None}]]
        /\ Pending \subseteq Cases
    BY <1>1 DEF FamilyInv, TypeOK, Pending
  <2>2. CASE NoneCancelled
    BY <2>2 DEF NoneCancelled
  <2>3. ASSUME NEW t \in Txns, Cancels(t), NEW c \in Cases, case'[c] # case[c]
        PROVE  /\ c \in Pending
               /\ op[t] = "cancelTransfer" /\ item[t] = c /\ self[t] = primary
    BY <2>1, <2>3 DEF Cancels
  <2> QED BY <1>1, <2>2, <2>3, NextDoes
<1> QED BY <1>1, FamilyInvariant, PTL DEF Spec, CancelledByPrimary

\* The membership operations implement FamilyRoster.
THEOREM RosterKept == Spec => KeepsRoster
<1> DEFINE Active == {m \in Members : status[m] = "active"}
<1>1. Init => Roster!Init
  BY SubjectAssumption DEF Init, Roster!Init
<1>2. ASSUME FamilyInv, [Next]_vars PROVE [Roster!Next]_Roster!roster
  <2>0. status \in [Members -> MemberStatus]
    BY <1>2 DEF FamilyInv, TypeOK
  <2>1. CASE Invites /\ primary' = primary
    <3>1. Active' = Active
      BY <2>0, <2>1 DEF Invites
    <3> QED BY <2>1, <3>1 DEF Roster!roster
  <2>2. CASE Joins /\ primary' = primary
    <3>1. PICK m \in Members : status' = [status EXCEPT ![m] = "active"]
      BY <2>2 DEF Joins
    <3>2. Active' = Active \cup {m}
      BY <2>0, <3>1
    <3> QED BY <2>2, <3>2 DEF Roster!Next, Roster!Join
  <2>3. CASE Leaves /\ primary' = primary
    <3>1. PICK m \in Members :
            m # primary /\ \E st \in {"removed", "revoked"} : status' = [status EXCEPT ![m] = st]
      BY <2>3 DEF Leaves
    <3>2. Active' = Active \ {m}
      BY <2>0, <3>1
    <3> QED BY <2>3, <3>1, <3>2 DEF Roster!Next, Roster!Leave
  <2>4. CASE HandsOver /\ status' = status
    <3>1. PICK m \in Members : m # primary /\ status[m] = "active" /\ primary' = m
      BY <2>4 DEF HandsOver
    <3>2. Active' = Active
      BY <2>4
    <3> QED BY <3>1, <3>2 DEF Roster!Next, Roster!HandOver
  <2>5. CASE primary' = primary /\ status' = status
    BY <2>5 DEF Roster!roster
  <2> QED BY <1>2, <2>1, <2>2, <2>3, <2>4, <2>5, NextDoes
<1> QED BY <1>1, <1>2, FamilyInvariant, PTL DEF Spec, KeepsRoster, Roster!Spec

-----------------------------------------------------------------------------
(* Invite codes, and the order of the locks.                               *)

\* What the steps of an invite code checked of its row under a lock they still hold.
CodeKnows(t) ==
  /\ op[t] = "issueCode" => pc[t] = "lockFamily"
  /\ op[t] = "redeemCode" => pc[t] \in {"lockItem", "lockFamily", "write"}
  /\ \/ At(t, "revokeCode", "commit")
     \/ op[t] = "redeemCode" /\ pc[t] # "lockItem"
     => lock[item[t]] = t /\ code[item[t]].status = "open"

\* The operations that swap the office or make and redeem codes.
Swaps == {"createTransfer", "acceptTransfer", "issueCode", "redeemCode"}

\* Which rows a transaction has locked: none before its first lock, and in an operation of
\* Swaps a membership only after the family.
Holding(t) ==
  /\ pc[t] \in {"idle", "lockItem"} => \A x \in Rows : lock[x] # t
  /\ op[t] \in Swaps => \A m \in Members : lock[m] = t => lock[Family] = t

\* Behind the theorems on codes and locks; asOf is what had lapsed when a transaction began.
CodeInv ==
  /\ \A t \in Txns : CodeKnows(t) /\ Holding(t) /\ asOf[t] \subseteq lapsed
  /\ OpenCodesBounded


\* What the other transactions know of codes, and what they hold, stands while t locks rows
\* that were free and changes the codes it holds, or codes that are not open.
LEMMA OthersKeepCodes ==
  ASSUME TxnTypes, OwnsItem, CodeInv, NEW t \in Txns,
         \A u \in Txns \ {t} : /\ op'[u] = op[u] /\ pc'[u] = pc[u]
                               /\ item'[u] = item[u] /\ asOf'[u] = asOf[u],
         \A u \in Txns \ {t}, x \in Rows : lock[x] = u <=> lock'[x] = u,
         \A c \in Codes : code'[c] = code[c] \/ lock[c] = t \/ code[c].status # "open",
         lapsed \subseteq lapsed',
         CodeKnows(t)', Holding(t)', asOf'[t] \subseteq lapsed'
  PROVE  \A u \in Txns : (CodeKnows(u) /\ Holding(u) /\ asOf[u] \subseteq lapsed)'
<1> SUFFICES ASSUME NEW u \in Txns \ {t}
             PROVE  (CodeKnows(u) /\ Holding(u) /\ asOf[u] \subseteq lapsed)'
  OBVIOUS
<1>1. CodeKnows(u) /\ Holding(u) /\ asOf[u] \subseteq lapsed /\ Owns(u)
  BY DEF CodeInv, OwnsItem
<1>2. CodeKnows(u)'
  BY <1>1 DEF CodeKnows, At, Owns, Rows
<1>3. Holding(u)'
  BY <1>1 DEF Holding, Rows
<1> QED BY <1>1, <1>2, <1>3

\* A transaction that ends holds nothing, and changed codes it had locked or made one.
LEMMA EndKeepsCodes ==
  ASSUME FamilyInv, CodeInv, NEW t \in Txns, End(t), UNCHANGED lapsed, OpenCodesBounded',
         \A c \in Codes : code'[c] = code[c] \/ lock[c] = t \/ code[c].status # "open"
  PROVE  CodeInv'
<1>1. TxnTypes /\ OwnsItem
  BY Parts
<1>2. /\ op'[t] = "none" /\ asOf'[t] = {} /\ \A x \in Rows : lock'[x] # t
      /\ \A u \in Txns \ {t} : /\ op'[u] = op[u] /\ pc'[u] = pc[u]
                               /\ item'[u] = item[u] /\ asOf'[u] = asOf[u]
      /\ \A u \in Txns \ {t}, x \in Rows : lock[x] = u <=> lock'[x] = u
  BY <1>1, RowsAssumption DEF TxnTypes, End
<1>3. CodeKnows(t)' /\ Holding(t)'
  BY <1>2 DEF CodeKnows, Holding, At, Swaps
<1> QED BY <1>1, <1>2, <1>3, OthersKeepCodes DEF CodeInv

\* A refusal changes no code.
LEMMA RefuseKeepsCodes ==
  ASSUME FamilyInv, CodeInv, NEW t \in Txns, Refuse(t)
  PROVE  CodeInv'
<1>1. End(t) /\ code' = code /\ lapsed' = lapsed
  BY DEF Refuse, rows
<1>2. OpenCodesBounded'
  BY <1>1 DEF CodeInv, OpenCodesBounded, OpenCodes
<1> QED BY <1>1, <1>2, EndKeepsCodes

\* A lock that is taken: of a membership, in an operation of Swaps, after the family's.
LEMMA TakeKeepsCodes ==
  ASSUME FamilyInv, CodeInv, NEW t \in Txns, NEW x \in Rows, NEW step \in Steps \ {"idle", "lockItem"},
         Free(t, x), Take(t, x, step), CodeKnows(t)',
         op[t] \in Swaps /\ x \in Members => lock[Family] = t
  PROVE  CodeInv'
<1>1. TxnTypes /\ OwnsItem
  BY Parts
<1>2. /\ pc'[t] = step /\ op' = op /\ item' = item /\ asOf' = asOf /\ code' = code /\ lapsed' = lapsed
      /\ \A u \in Txns \ {t} : pc'[u] = pc[u]
      /\ lock'[x] = t /\ \A y \in Rows \ {x} : lock'[y] = lock[y]
  BY <1>1 DEF TxnTypes, Take, rows
<1>3. \A u \in Txns \ {t}, y \in Rows : lock[y] = u <=> lock'[y] = u
  BY <1>2, RowsAssumption DEF Free
<1>4. Holding(t)'
  BY <1>2 DEF Holding, CodeInv, Rows
<1>5. OpenCodesBounded'
  BY <1>2 DEF CodeInv, OpenCodesBounded, OpenCodes
<1> QED BY <1>1, <1>2, <1>3, <1>4, <1>5, OthersKeepCodes DEF CodeInv

\* SELECT ... FOR UPDATE and what is checked of the row.
LEMMA LockKeepsCodes ==
  ASSUME FamilyInv, CodeInv, NEW t \in Txns, NEW x \in Rows, NEW ok \in BOOLEAN,
         NEW step \in Steps \ {"idle", "lockItem"}, LockAndCheck(t, x, ok, step),
         ok /\ Take(t, x, step) => CodeKnows(t)',
         op[t] \in Swaps /\ x \in Members => lock[Family] = t
  PROVE  CodeInv'
<1>1. CASE ok
  BY <1>1, TakeKeepsCodes DEF LockAndCheck
<1>2. CASE ~ok
  BY <1>2, RefuseKeepsCodes DEF LockAndCheck
<1> QED BY <1>1, <1>2

\* A transaction that begins holds nothing, and sees what has lapsed.
LEMMA BeginKeepsCodes ==
  ASSUME FamilyInv, CodeInv, NEW t \in Txns, BeginSome(t)
  PROVE  CodeInv'
<1>1. TxnTypes /\ OwnsItem
  BY Parts
<1>2. PICK kind \in Operations, step \in Steps :
        /\ \E me, account, row : Begin(t, kind, step, me, account, row)
        /\ kind = "issueCode" => step = "lockFamily"
        /\ kind = "revokeCode" => step = "lockItem"
        /\ kind = "redeemCode" => step = "lockItem"
  BY DEF BeginSome, BeginInvite, BeginAccept, BeginRevoke, BeginCreate, BeginAcceptTransfer, BeginCancel,
         BeginIssue, BeginRevokeCode, BeginRedeem, Operations, Steps
<1>3. /\ pc[t] = "idle" /\ op'[t] = kind /\ pc'[t] = step /\ asOf'[t] = lapsed
      /\ lock' = lock /\ code' = code /\ lapsed' = lapsed
      /\ \A u \in Txns \ {t} : /\ op'[u] = op[u] /\ pc'[u] = pc[u]
                               /\ item'[u] = item[u] /\ asOf'[u] = asOf[u]
  BY <1>1, <1>2 DEF TxnTypes, Begin, rows
<1>4. CodeKnows(t)' /\ Holding(t)'
  BY <1>2, <1>3 DEF CodeInv, CodeKnows, Holding, At, Rows
<1>5. OpenCodesBounded'
  BY <1>3 DEF CodeInv, OpenCodesBounded, OpenCodes
<1> QED BY <1>1, <1>3, <1>4, <1>5, OthersKeepCodes DEF CodeInv

\* Open codes become fewer, or one more where there were less than the ceiling.
LEMMA CeilingKept ==
  ASSUME CodeInv, OpenCodes(lapsed)' \subseteq OpenCodes(lapsed)
  PROVE  OpenCodesBounded'
<1>1. IsFiniteSet(OpenCodes(lapsed))
  BY BoundAssumption, FS_Subset DEF OpenCodes
<1>2. /\ Cardinality(OpenCodes(lapsed)') <= Cardinality(OpenCodes(lapsed))
      /\ Cardinality(OpenCodes(lapsed)') \in Nat /\ Cardinality(OpenCodes(lapsed)) \in Nat
  BY <1>1, FS_Subset, FS_CardinalityType
<1>3. Cardinality(OpenCodes(lapsed)) <= MaxOpenCodes
  BY DEF CodeInv, OpenCodesBounded
<1>4. Cardinality(OpenCodes(lapsed)') <= MaxOpenCodes
  BY <1>2, <1>3, BoundAssumption
<1> QED BY <1>4 DEF OpenCodesBounded

\* An issuer counts the codes that were open when its transaction began, which no code that is
\* open now has left since.
LEMMA IssueKeepsCeiling ==
  ASSUME FamilyInv, CodeInv, NEW t \in Txns, IssueCode(t), ~Refuse(t)
  PROVE  OpenCodesBounded'
<1>1. PICK c \in Codes, r \in InviteRoles : code' = [code EXCEPT ![c] = [status |-> "open", role |-> r]]
  BY DEF IssueCode
<1>2. lapsed' = lapsed /\ ~(Cardinality(OpenCodes(asOf[t])) >= MaxOpenCodes)
  BY DEF IssueCode
<1>3. IsFiniteSet(OpenCodes(asOf[t])) /\ IsFiniteSet(OpenCodes(lapsed)) /\ IsFiniteSet(OpenCodes(lapsed)')
  BY BoundAssumption, FS_Subset DEF OpenCodes
<1>4. OpenCodes(lapsed) \subseteq OpenCodes(asOf[t])
  BY DEF CodeInv, OpenCodes
<1>5. OpenCodes(lapsed)' \subseteq OpenCodes(lapsed) \cup {c}
  BY <1>1, <1>2 DEF FamilyInv, TypeOK, OpenCodes
<1>6. /\ Cardinality(OpenCodes(lapsed)) <= Cardinality(OpenCodes(asOf[t]))
      /\ Cardinality(OpenCodes(lapsed)) \in Nat /\ Cardinality(OpenCodes(asOf[t])) \in Nat
  BY <1>3, <1>4, FS_Subset, FS_CardinalityType
<1>7. /\ Cardinality(OpenCodes(lapsed) \cup {c}) <= Cardinality(OpenCodes(lapsed)) + 1
      /\ IsFiniteSet(OpenCodes(lapsed) \cup {c}) /\ Cardinality(OpenCodes(lapsed) \cup {c}) \in Nat
  <2>1. /\ IsFiniteSet(OpenCodes(lapsed) \cup {c})
        /\ \/ Cardinality(OpenCodes(lapsed) \cup {c}) = Cardinality(OpenCodes(lapsed))
           \/ Cardinality(OpenCodes(lapsed) \cup {c}) = Cardinality(OpenCodes(lapsed)) + 1
    BY <1>3, FS_AddElement
  <2> QED BY <1>6, <2>1
<1>8. Cardinality(OpenCodes(lapsed)') <= Cardinality(OpenCodes(lapsed) \cup {c})
      /\ Cardinality(OpenCodes(lapsed)') \in Nat
  BY <1>3, <1>5, <1>7, FS_Subset, FS_CardinalityType
<1>9. Cardinality(OpenCodes(lapsed)') <= MaxOpenCodes
  BY <1>2, <1>6, <1>7, <1>8, BoundAssumption
<1> QED BY <1>9 DEF OpenCodesBounded

\* Every step of a transaction.
LEMMA StepKeepsCodes ==
  ASSUME FamilyInv, CodeInv, NEW t \in Txns, Step(t)
  PROVE  CodeInv'
<1>0. /\ TxnTypes /\ RowFacts /\ Owns(t) /\ Checks(t) /\ CodeKnows(t) /\ Holding(t)
      /\ primary \in Members /\ Family \in Rows
  BY Parts DEF OwnsItem, ChecksHold, CodeInv, RowFacts, RowTypes, Rows
<1>1. CASE Refuse(t)
  BY <1>1, RefuseKeepsCodes
<1>2. ASSUME End(t), UNCHANGED <<code, lapsed>> PROVE CodeInv'
  <2>1. OpenCodesBounded'
    BY <1>2 DEF CodeInv, OpenCodesBounded, OpenCodes
  <2> QED BY <1>2, <2>1, EndKeepsCodes
<1>3. CASE CommitInvite(t) \/ AcceptInvitation(t) \/ RevokeMembership(t) \/ InsertCase(t)
           \/ AcceptTransfer(t) \/ CommitCancellation(t)
  BY <1>1, <1>2, <1>3
     DEF CommitInvite, AcceptInvitation, RevokeMembership, InsertCase, AcceptTransfer, CommitCancellation
<1>4. CASE InsertInvite(t) /\ ~Refuse(t)
  <2>1. /\ At(t, "invite", "write") /\ pc' = [pc EXCEPT ![t] = "commit"]
        /\ UNCHANGED <<code, lapsed, lock, op, self, who, item, asOf>>
    BY <1>4 DEF InsertInvite, rows
  <2>2. CodeKnows(t)' /\ Holding(t)'
    BY <1>0, <2>1 DEF CodeKnows, Holding, At, TxnTypes, Swaps
  <2>3. OpenCodesBounded'
    BY <2>1 DEF CodeInv, OpenCodesBounded, OpenCodes
  <2>4. \A u \in Txns \ {t} : pc'[u] = pc[u]
    BY <1>0, <2>1 DEF TxnTypes
  <2>5. OwnsItem
    BY Parts
  <2> QED BY <1>0, <2>1, <2>2, <2>3, <2>4, <2>5, OthersKeepCodes DEF CodeInv
<1>5. ASSUME NEW x \in Rows, NEW ok \in BOOLEAN, NEW step \in Steps \ {"idle", "lockItem"},
             LockAndCheck(t, x, ok, step), op[t] \notin {"issueCode", "revokeCode", "redeemCode"},
             op[t] \in Swaps /\ x \in Members => lock[Family] = t
      PROVE  CodeInv'
  <2>1. Take(t, x, step) => CodeKnows(t)'
    BY <1>5 DEF Take, CodeKnows, At
  <2> QED BY <1>5, <2>1, LockKeepsCodes
<1>6. CASE LockInvitation(t) \/ LockMembership(t) \/ WriteCancellation(t)
  <2>1. item[t] \in Rows /\ op[t] \notin Swaps \cup {"revokeCode"} /\ op[t] \in {"accept", "revoke", "cancelTransfer"}
    BY <1>0, <1>6 DEF LockInvitation, LockMembership, WriteCancellation, At, Owns, Rows, Swaps
  <2> QED BY <1>5, <1>6, <2>1 DEF LockInvitation, LockMembership, WriteCancellation, Steps, Swaps
<1>7. CASE CreateLocksFamily(t) \/ AcceptLocksFamily(t)
  <2>1. op[t] \in {"createTransfer", "acceptTransfer"} /\ Family \notin Members
    BY <1>7, RowsAssumption DEF CreateLocksFamily, AcceptLocksFamily, At
  <2> QED BY <1>0, <1>5, <1>7, <2>1 DEF CreateLocksFamily, AcceptLocksFamily, Steps
<1>8. CASE AcceptLocksCase(t)
  <2>1. item[t] \in Rows /\ item[t] \notin Members /\ op[t] = "acceptTransfer"
    BY <1>0, <1>8, RowsAssumption DEF AcceptLocksCase, At, Owns, Rows
  <2> QED BY <1>5, <1>8, <2>1 DEF AcceptLocksCase, Steps
<1>9. CASE CreateLocksPrimary(t) \/ AcceptLocksPrimary(t)
  <2>1. primary \in Rows /\ op[t] \in {"createTransfer", "acceptTransfer"} /\ lock[Family] = t
    BY <1>0, <1>9 DEF CreateLocksPrimary, AcceptLocksPrimary, At, Checks, Rows
  <2> QED BY <1>5, <1>9, <2>1 DEF CreateLocksPrimary, AcceptLocksPrimary, Steps
<1>10. CASE CreateLocksCandidate(t)
  <2>1. item[t] \in Rows /\ op[t] = "createTransfer" /\ lock[Family] = t
    BY <1>0, <1>10 DEF CreateLocksCandidate, At, Checks, Owns, Rows
  <2> QED BY <1>5, <1>10, <2>1 DEF CreateLocksCandidate, Steps
<1>11. CASE IssueCode(t) /\ ~Refuse(t)
  <2>1. End(t) /\ lapsed' = lapsed
    BY <1>11 DEF IssueCode
  <2>2. PICK c \in Codes, r \in InviteRoles :
          code[c] = NoCode /\ code' = [code EXCEPT ![c] = [status |-> "open", role |-> r]]
    BY <1>11 DEF IssueCode
  <2>3. \A d \in Codes : code'[d] = code[d] \/ code[d].status # "open"
    BY <1>0, <2>2 DEF RowFacts, RowTypes, NoCode
  <2> QED BY <1>11, <2>1, <2>3, IssueKeepsCeiling, EndKeepsCodes
<1>12. CASE LockCode(t)
  <2>1. At(t, "revokeCode", "lockItem") /\ item[t] \in Rows /\ item[t] \in Codes
    BY <1>0, <1>12 DEF LockCode, At, Owns, Rows
  <2>2. code[item[t]].status = "open" /\ Take(t, item[t], "commit") => CodeKnows(t)'
    BY <1>0, <2>1 DEF Take, CodeKnows, At, TxnTypes, rows
  <2> QED BY <1>12, <2>1, <2>2, LockKeepsCodes DEF LockCode, Steps, At, Swaps
<1>13. CASE RedeemLocksCode(t)
  <2>1. At(t, "redeemCode", "lockItem") /\ item[t] \in Rows /\ item[t] \in Codes
    BY <1>0, <1>13 DEF RedeemLocksCode, At, Owns, Rows
  <2>2. code[item[t]].status = "open" /\ Take(t, item[t], "lockFamily") => CodeKnows(t)'
    BY <1>0, <2>1 DEF Take, CodeKnows, At, TxnTypes, rows
  <2>3. item[t] \notin Members
    BY <2>1, RowsAssumption
  <2> QED BY <1>13, <2>1, <2>2, <2>3, LockKeepsCodes DEF RedeemLocksCode, Steps
<1>14. CASE RedeemLocksFamily(t)
  <2>1. At(t, "redeemCode", "lockFamily") /\ item[t] \in Codes /\ Family \notin Members \cup Codes
    BY <1>0, <1>14, RowsAssumption DEF RedeemLocksFamily, At, Owns
  <2>2. Take(t, Family, "write") => CodeKnows(t)'
    BY <1>0, <2>1 DEF Take, CodeKnows, At, TxnTypes, rows, Rows
  <2> QED BY <1>0, <1>14, <2>1, <2>2, LockKeepsCodes DEF RedeemLocksFamily, Steps
<1>15. CASE RevokeCode(t) \/ (RedeemCode(t) /\ ~Refuse(t))
  <2>1. item[t] \in Codes /\ lock[item[t]] = t /\ End(t) /\ lapsed' = lapsed
    BY <1>0, <1>15 DEF RevokeCode, RedeemCode, CodeKnows, Owns, At
  <2>2. PICK st \in {"revoked", "redeemed"} : code' = [code EXCEPT ![item[t]].status = st]
    BY <1>15 DEF RevokeCode, RedeemCode
  <2>3. /\ \A c \in Codes : code'[c] = code[c] \/ lock[c] = t
        /\ OpenCodes(lapsed)' \subseteq OpenCodes(lapsed)
    BY <1>0, <2>1, <2>2 DEF RowFacts, RowTypes, OpenCodes
  <2> QED BY <2>1, <2>3, CeilingKept, EndKeepsCodes
<1>16. CASE DeadlockDetected(t)
  BY <1>1, <1>16 DEF DeadlockDetected
<1> QED BY <1>1, <1>3, <1>4, <1>6, <1>7, <1>8, <1>9, <1>10, <1>11, <1>12, <1>13, <1>14, <1>15, <1>16
        DEF Step

\* Nothing is locked and no code is there at first.
LEMMA InitCodes == Init => CodeInv
<1> SUFFICES ASSUME Init PROVE CodeInv
  OBVIOUS
<1>1. \A t \in Txns : CodeKnows(t) /\ Holding(t) /\ asOf[t] \subseteq lapsed
  BY RowsAssumption DEF Init, CodeKnows, Holding, At, Swaps
<1>2. OpenCodes(lapsed) = {}
  BY DEF Init, OpenCodes, NoCode
<1> QED BY <1>1, <1>2, FS_EmptySet, BoundAssumption DEF CodeInv, OpenCodesBounded

\* Every step of the family, the deadlines among them.
LEMMA NextKeepsCodes == FamilyInv /\ CodeInv /\ [Next]_vars => CodeInv'
<1> SUFFICES ASSUME FamilyInv, CodeInv, [Next]_vars PROVE CodeInv'
  OBVIOUS
<1>1. CASE UNCHANGED vars
  BY <1>1 DEF vars, rows, txns, CodeInv, CodeKnows, Holding, At, OpenCodesBounded, OpenCodes
<1>2. CASE Lapse
  <2>1. UNCHANGED <<code, lock, op, pc, item, asOf>> /\ lapsed \subseteq lapsed'
    BY <1>2 DEF Lapse, txns
  <2>2. OpenCodes(lapsed)' \subseteq OpenCodes(lapsed)
    BY <2>1 DEF OpenCodes
  <2>3. OpenCodesBounded'
    BY <2>2, CeilingKept
  <2> QED BY <2>1, <2>3 DEF CodeInv, CodeKnows, Holding, At
<1>3. ASSUME NEW t \in Txns, ConnectionLost(t) PROVE CodeInv'
  BY <1>3, RefuseKeepsCodes DEF ConnectionLost
<1> QED BY <1>1, <1>2, <1>3, BeginKeepsCodes, StepKeepsCodes DEF Next

\* What a redemption or a revocation checked of its code is true until it ends, and memberships
\* are locked behind the family wherever the office is swapped (lockedFamilyPrimary; issue,
\* revoke and redeem of family-invite-codes.js).
THEOREM CodesInvariant == Spec => [](FamilyInv /\ CodeInv)
<1>1. Init => FamilyInv /\ CodeInv
  BY InitInv, InitCodes
<1>2. FamilyInv /\ CodeInv /\ [Next]_vars => (FamilyInv /\ CodeInv)'
  BY NextKeeps, NextKeepsCodes
<1> QED BY <1>1, <1>2, PTL DEF Spec

\* The ceiling of open codes holds although the count of an issuer is as old as its
\* transaction: what it counts includes all that is open when it writes (issue).
THEOREM CeilingHolds == Spec => []OpenCodesBounded
<1>1. CodeInv => OpenCodesBounded
  BY DEF CodeInv
<1> QED BY <1>1, CodesInvariant, PTL

\* A code makes one member, and what was redeemed or revoked stays so: both lock the row of the
\* code and read it again (redeem and revoke of family-invite-codes.js).
THEOREM CodeMakesOneMember == Spec => CodeSpentOnce
<1>1. ASSUME FamilyInv, CodeInv, [Next]_vars
      PROVE  /\ \A m \in Members : joinedBy'[m] # joinedBy[m] =>
                  code[joinedBy'[m]].status = "open" /\ code'[joinedBy'[m]].status = "redeemed"
             /\ \A c \in Codes : code[c].status \in {"redeemed", "revoked"} =>
                  code'[c].status = code[c].status
  <2>0. RowTypes
    BY <1>1, Parts DEF RowFacts
  <2>1. CASE UNCHANGED <<code, joinedBy>>
    BY <2>1
  <2>2. ASSUME NEW t \in Txns, BeginSome(t) PROVE UNCHANGED <<code, joinedBy>>
    BY <2>2 DEF BeginSome, BeginInvite, BeginAccept, BeginRevoke, BeginCreate, BeginAcceptTransfer, BeginCancel,
                BeginIssue, BeginRevokeCode, BeginRedeem, Begin, rows
  <2>3. ASSUME NEW t \in Txns, IssueCode(t)
        PROVE  joinedBy' = joinedBy /\ \A c \in Codes : code'[c] = code[c] \/ code[c] = NoCode
    BY <2>0, <2>3 DEF IssueCode, Refuse, rows, RowTypes
  <2>4. ASSUME NEW t \in Txns, RevokeCode(t) \/ (RedeemCode(t) /\ ~Refuse(t))
        PROVE  /\ item[t] \in Codes /\ code[item[t]].status = "open"
               /\ \A c \in Codes \ {item[t]} : code'[c] = code[c]
               /\ \A m \in Members : joinedBy'[m] # joinedBy[m] =>
                    joinedBy'[m] = item[t] /\ code'[item[t]].status = "redeemed"
    <3>1. Owns(t) /\ CodeKnows(t)
      BY <1>1, Parts DEF OwnsItem, CodeInv
    <3>2. item[t] \in Codes /\ code[item[t]].status = "open"
      BY <2>4, <3>1 DEF RevokeCode, RedeemCode, CodeKnows, Owns, At
    <3> QED BY <2>0, <2>4, <3>2 DEF RevokeCode, RedeemCode, RowTypes
  <2>5. ASSUME NEW t \in Txns, Step(t), ~IssueCode(t), ~RevokeCode(t), ~(RedeemCode(t) /\ ~Refuse(t))
        PROVE  UNCHANGED <<code, joinedBy>>
    <3>1. ASSUME NEW x, NEW ok, NEW step, LockAndCheck(t, x, ok, step) PROVE UNCHANGED <<code, joinedBy>>
      BY <3>1 DEF LockAndCheck, Take, Refuse, rows
    <3>2. CASE \/ LockInvitation(t) \/ LockMembership(t) \/ CreateLocksFamily(t) \/ CreateLocksPrimary(t)
               \/ CreateLocksCandidate(t) \/ AcceptLocksCase(t) \/ AcceptLocksFamily(t)
               \/ AcceptLocksPrimary(t) \/ WriteCancellation(t) \/ LockCode(t) \/ RedeemLocksCode(t)
               \/ RedeemLocksFamily(t)
      BY <3>1, <3>2 DEF LockInvitation, LockMembership, CreateLocksFamily, CreateLocksPrimary,
         CreateLocksCandidate, AcceptLocksCase, AcceptLocksFamily, AcceptLocksPrimary, WriteCancellation,
         LockCode, RedeemLocksCode, RedeemLocksFamily
    <3>3. CASE \/ InsertInvite(t) \/ CommitInvite(t) \/ AcceptInvitation(t) \/ RevokeMembership(t)
               \/ InsertCase(t) \/ AcceptTransfer(t) \/ CommitCancellation(t) \/ DeadlockDetected(t)
               \/ Refuse(t)
      BY <3>3 DEF InsertInvite, CommitInvite, AcceptInvitation, RevokeMembership, InsertCase, AcceptTransfer,
                  CommitCancellation, DeadlockDetected, Refuse, rows
    <3> QED BY <2>5, <3>2, <3>3 DEF Step
  <2>6. ASSUME NEW t \in Txns, ConnectionLost(t) PROVE UNCHANGED <<code, joinedBy>>
    BY <2>6 DEF ConnectionLost, Refuse, rows
  <2>7. CASE \E t \in Txns : Step(t) /\ (RevokeCode(t) \/ (RedeemCode(t) /\ ~Refuse(t)))
    BY <2>4, <2>7
  <2>8. CASE \E t \in Txns : IssueCode(t)
    BY <2>3, <2>8 DEF NoCode
  <2>9. CASE Lapse \/ UNCHANGED vars
    BY <2>1, <2>9 DEF Lapse, vars, rows
  <2>10. CASE \E t \in Txns : Step(t)
    BY <2>1, <2>5, <2>7, <2>8, <2>10
  <2> QED BY <1>1, <2>1, <2>2, <2>6, <2>9, <2>10 DEF Next
<1> QED BY <1>1, CodesInvariant, PTL DEF Spec, CodeSpentOnce

\* Transfers and invite codes never wait for each other in a circle: who waits for the family's
\* row or for a membership waits for the one transaction that holds the family's row, which
\* itself waits for nobody among them.
THEOREM SwapsNeverDeadlock == Spec => []NoRoleSwapDeadlock
<1>1. ASSUME FamilyInv, CodeInv PROVE NoRoleSwapDeadlock
  <2> SUFFICES ASSUME NEW ring \in SUBSET {t \in Txns : op[t] \in Swaps}, Circle(ring)
               PROVE  FALSE
    BY DEF NoRoleSwapDeadlock, Swaps
  <2>0. TxnTypes /\ RowFacts
    BY <1>1, Parts
  <2>1. ASSUME NEW u \in ring
        PROVE  u \in Txns /\ op[u] \in Swaps /\ Owns(u) /\ Checks(u) /\ CodeKnows(u) /\ Holding(u)
    BY <1>1, <2>1, Parts DEF OwnsItem, ChecksHold, CodeInv
  \* A transaction of the circle waits for a row that another of it holds.
  <2>2. ASSUME NEW u \in ring
        PROVE  Wanted(u) \in Rows /\ lock[Wanted(u)] \in ring \ {u}
               /\ \A w \in WaitsFor(u) : w = lock[Wanted(u)]
    <3>1. WaitsFor(u) \cap ring # {}
      BY DEF Circle
    <3>0. pc[u] = "write" => Wanted(u) \notin Rows
      BY RowsAssumption DEF Wanted, Rows
    <3>2. ~At(u, "createTransfer", "write")
      <4>1. \A v \in ring : v \notin Cancelling
        BY DEF Cancelling, At, Swaps
      <4> QED BY <3>0, <3>1, <4>1 DEF WaitsFor, At
    <3>3. ~(pc[u] = "write" /\ op[u] \in {"invite", "redeemCode"})
      <4>1. \A v \in ring : v \notin Inserting(who[u])
        BY DEF Inserting, At, Swaps
      <4> QED BY <3>0, <3>1, <3>2, <4>1 DEF WaitsFor, At
    <3> QED BY <3>1, <3>2, <3>3 DEF WaitsFor
  \* So none of it is before its first lock.
  <2>3. ASSUME NEW u \in ring PROVE pc[u] # "lockItem"
    <3>1. PICK v \in ring : u \in WaitsFor(v)
      BY DEF Circle
    <3> QED BY <2>1, <2>2, <3>1 DEF Holding
  \* It waits for the family, or holds it and waits for a membership.
  <2>4. ASSUME NEW u \in ring
        PROVE  Wanted(u) = Family \/ (lock[Family] = u /\ Wanted(u) \in Members)
    <3>1. pc[u] \in {"lockPrimary", "lockCandidate", "lockFamily", "commit"}
      BY <2>2, <2>3, RowsAssumption DEF Wanted, Rows
    <3>2. CASE pc[u] \in {"lockFamily", "commit"}
      BY <3>2 DEF Wanted
    <3>3. CASE pc[u] = "lockPrimary"
      BY <2>0, <2>1, <3>3 DEF Wanted, Checks, CodeKnows, Swaps, RowFacts, RowTypes
    <3>4. CASE pc[u] = "lockCandidate"
      BY <2>0, <2>1, <3>4 DEF Wanted, Checks, CodeKnows, Owns, Swaps, RowFacts, PendingNamesMembers
    <3> QED BY <3>1, <3>2, <3>3, <3>4
  <2>5. PICK u \in ring : TRUE
    BY DEF Circle
  <2>6. PICK w \in ring : lock[Family] = w
    BY <2>2, <2>4, <2>5
  <2>7. Wanted(w) # Family /\ Wanted(w) \in Members /\ lock[Wanted(w)] \in ring \ {w}
    BY <2>2, <2>4, <2>6
  <2>8. lock[Family] = lock[Wanted(w)]
    BY <2>1, <2>7 DEF Holding
  <2> QED BY <2>6, <2>7, <2>8
<1> QED BY <1>1, CodesInvariant, PTL


-----------------------------------------------------------------------------
(* One current membership per account.                                     *)

\* An invitation that has its index entry is its account's only one, and the account has no
\* current membership.
SeatInv ==
  /\ OneCurrentMembership
  /\ \A t \in Txns : At(t, "invite", "commit") =>
       Current(who[t]) = {} /\ Inserting(who[t]) = {t}

\* A step that seats nobody and gives nobody an index entry.
LEMMA NobodySeated ==
  ASSUME SeatInv, \A s \in Subjects \cup {None} : Current(s)' \subseteq Current(s),
         who \in [Txns -> Subjects \cup {None}],
         \A t \in Txns : At(t, "invite", "commit")' =>
           At(t, "invite", "commit") /\ who'[t] = who[t]
  PROVE  SeatInv'
<1>1. OneCurrentMembership'
  BY DEF SeatInv, OneCurrentMembership
<1>2. ASSUME NEW t \in Txns, At(t, "invite", "commit")'
      PROVE  Current(who[t])' = {} /\ Inserting(who[t])' = {t}
  BY <1>2 DEF SeatInv, Inserting
<1> QED BY <1>1, <1>2 DEF SeatInv, Inserting, Current

LEMMA SeatEnd ==
  ASSUME TxnTypes, SeatInv, NEW t \in Txns, End(t),
         \A s \in Subjects \cup {None} : Current(s)' \subseteq Current(s)
  PROVE  SeatInv'
<1>1. \A u \in Txns : At(u, "invite", "commit")' =>
        At(u, "invite", "commit") /\ who'[u] = who[u]
  BY DEF End, TxnTypes, At
<1> QED BY <1>1, NobodySeated DEF TxnTypes

LEMMA SeatTake ==
  ASSUME TxnTypes, SeatInv, NEW t \in Txns, op[t] # "invite", NEW x, NEW ok, NEW step,
         LockAndCheck(t, x, ok, step)
  PROVE  SeatInv'
<1>1. status' = status /\ \A s \in Subjects \cup {None} : Current(s)' \subseteq Current(s)
  BY DEF LockAndCheck, Refuse, Take, rows, Current
<1>2. CASE End(t)
  BY <1>1, <1>2, SeatEnd
<1>3. CASE Take(t, x, step)
  <2>1. \A u \in Txns : At(u, "invite", "commit")' =>
          At(u, "invite", "commit") /\ who'[u] = who[u]
    BY <1>3 DEF Take, TxnTypes, At
  <2> QED BY <1>1, <2>1, NobodySeated DEF TxnTypes
<1> QED BY <1>2, <1>3 DEF LockAndCheck, Refuse

LEMMA SeatBegin ==
  ASSUME TxnTypes, SeatInv, NEW t \in Txns, NEW kind, NEW step, NEW me, NEW account, NEW row,
         Begin(t, kind, step, me, account, row), step # "commit"
  PROVE  SeatInv'
<1>1. \A s \in Subjects \cup {None} : Current(s)' \subseteq Current(s)
  BY DEF Begin, rows, Current
<1>2. \A u \in Txns : At(u, "invite", "commit")' =>
        At(u, "invite", "commit") /\ who'[u] = who[u]
  BY DEF Begin, TxnTypes, At
<1> QED BY <1>1, <1>2, NobodySeated DEF TxnTypes

\* An account without a current membership and without an entry of the index gets one.
LEMMA SeatGiven ==
  ASSUME TxnTypes, RowTypes, SeatInv, NEW t \in Txns, End(t), NEW m \in Fresh(who[t]), NEW to,
         status' = [status EXCEPT ![m] = to],
         Current(who[t]) = {}, Inserting(who[t]) \subseteq {t}
  PROVE  SeatInv'
<1>1. SubjectOf[m] = who[t] /\ m \in Members
  BY DEF Fresh
<1>2. \A u \in Txns : At(u, "invite", "commit")' =>
        /\ At(u, "invite", "commit") /\ who'[u] = who[u] /\ who[u] # who[t]
  BY DEF End, TxnTypes, At, Inserting
<1>3. \A s : s # who[t] => Current(s)' = Current(s)
  BY <1>1 DEF Current, RowTypes
<1>4. \A a, b \in Members :
        (/\ SubjectOf[a] = who[t] /\ status'[a] \in {"invited", "active"}
         /\ SubjectOf[b] = who[t] /\ status'[b] \in {"invited", "active"}) => a = b
  BY DEF Current, RowTypes
<1>5. OneCurrentMembership'
  <2> SUFFICES ASSUME NEW s \in Subjects, NEW a \in Current(s)', NEW b \in Current(s)'
               PROVE  a = b
    BY DEF OneCurrentMembership
  <2>1. CASE s = who[t]
    BY <1>4, <2>1 DEF Current
  <2>2. CASE s # who[t]
    BY <1>3, <2>2 DEF SeatInv, OneCurrentMembership
  <2> QED BY <2>1, <2>2
<1>6. ASSUME NEW u \in Txns, At(u, "invite", "commit")'
      PROVE  Current(who[u])' = {} /\ Inserting(who[u])' = {u}
  <2>1. At(u, "invite", "commit") /\ who'[u] = who[u] /\ who[u] # who[t]
    BY <1>2, <1>6
  <2>2. Current(who[u]) = {} /\ Inserting(who[u]) = {u}
    BY <2>1 DEF SeatInv
  <2>3. \A m1 \in Members : ~ (SubjectOf[m1] = who'[u] /\ status'[m1] \in {"invited", "active"})
    BY <1>1, <2>1, <2>2 DEF Current, RowTypes
  <2>4. \A v \in Txns : At(v, "invite", "commit")' /\ who'[v] = who'[u] => v = u
    BY <1>2, <2>1, <2>2 DEF Inserting
  <2> QED BY <1>6, <2>3, <2>4 DEF Current, Inserting
<1> QED BY <1>5, <1>6 DEF SeatInv

LEMMA SeatInsert ==
  ASSUME TxnTypes, SeatInv, NEW t \in Txns, InsertInvite(t)
  PROVE  SeatInv'
<1>1. CASE Refuse(t)
  BY <1>1, SeatEnd DEF Refuse, rows, Current
<1>2. CASE ~Refuse(t)
  <2>1. /\ Inserting(who[t]) = {} /\ Current(who[t]) = {}
        /\ op[t] = "invite" /\ op' = op /\ who' = who /\ status' = status
        /\ pc' = [pc EXCEPT ![t] = "commit"]
    BY <1>2 DEF InsertInvite, rows, At
  <2>2. OneCurrentMembership'
    BY <2>1 DEF SeatInv, OneCurrentMembership, Current
  <2>3. ASSUME NEW u \in Txns, At(u, "invite", "commit")'
        PROVE  Current(who[u])' = {} /\ Inserting(who[u])' = {u}
    <3>1. Current(who[u])' = Current(who[u])
      BY <2>1 DEF Current
    <3>2. \A v \in Txns : At(v, "invite", "commit")' => v = t \/ At(v, "invite", "commit")
      BY <2>1 DEF TxnTypes, At
    <3>3. CASE u = t
      BY <2>1, <2>3, <3>1, <3>2, <3>3 DEF Inserting
    <3>4. CASE u # t
      <4>1. At(u, "invite", "commit") /\ Current(who[u]) = {} /\ Inserting(who[u]) = {u}
        BY <2>3, <3>2, <3>4 DEF SeatInv
      <4>2. who[u] # who[t]
        BY <2>1, <4>1
      <4> QED BY <2>1, <2>3, <3>1, <3>2, <4>1, <4>2 DEF Inserting
    <3> QED BY <3>3, <3>4
  <2> QED BY <2>2, <2>3 DEF SeatInv
<1> QED BY <1>1, <1>2

LEMMA SeatKept ==
  ASSUME FamilyInv, SeatInv, [Next]_vars
  PROVE  SeatInv'
<1>0. TxnTypes /\ RowTypes /\ OwnsItem /\ ChecksHold
  BY Parts DEF RowFacts
<1>1. ASSUME NEW t \in Txns, BeginSome(t) PROVE SeatInv'
  <2>1. \E kind, me, account, row :
          \E step \in {"write", "lockItem", "lockFamily"} : Begin(t, kind, step, me, account, row)
    BY <1>1 DEF BeginSome, BeginInvite, BeginAccept, BeginRevoke, BeginCreate,
                BeginAcceptTransfer, BeginCancel, BeginIssue, BeginRevokeCode, BeginRedeem
  <2> QED BY <1>0, <2>1, SeatBegin
<1>2. ASSUME NEW t \in Txns, Step(t) PROVE SeatInv'
  <2>1. CASE InsertInvite(t)
    BY <1>0, <2>1, SeatInsert
  <2>2. CASE CommitInvite(t)
    <3>1. Current(who[t]) = {} /\ Inserting(who[t]) = {t}
      BY <2>2 DEF CommitInvite, SeatInv
    <3> QED BY <1>0, <2>2, <3>1, SeatGiven DEF CommitInvite
  <2>3. CASE RedeemCode(t)
    <3>1. CASE Refuse(t)
      BY <1>0, <3>1, SeatEnd DEF Refuse, rows, Current
    <3>2. CASE ~Refuse(t)
      BY <1>0, <2>3, <3>2, SeatGiven DEF RedeemCode
    <3> QED BY <3>1, <3>2
  <2>4. CASE AcceptInvitation(t) \/ RevokeMembership(t)
    <3>1. End(t)
      BY <2>4 DEF AcceptInvitation, RevokeMembership, Refuse
    <3>2. item[t] \in Members
      BY <1>0, <2>4 DEF OwnsItem, Owns, AcceptInvitation, RevokeMembership, At
    <3>3. \A m \in Members : status'[m] \in {"invited", "active"} =>
            status[m] \in {"invited", "active"}
      BY <1>0, <2>4, <3>2 DEF AcceptInvitation, RevokeMembership, Refuse, rows, RowTypes
    <3> QED BY <1>0, <3>1, <3>3, SeatEnd DEF Current
  <2>5. CASE InsertCase(t) \/ AcceptTransfer(t) \/ CommitCancellation(t) \/ IssueCode(t)
             \/ RevokeCode(t) \/ DeadlockDetected(t)
    <3>1. End(t) /\ status' = status
      BY <2>5 DEF InsertCase, AcceptTransfer, CommitCancellation, IssueCode, RevokeCode,
                  DeadlockDetected, Refuse, rows
    <3> QED BY <1>0, <3>1, SeatEnd DEF Current
  <2>6. CASE LockInvitation(t) \/ LockMembership(t) \/ CreateLocksFamily(t)
             \/ CreateLocksPrimary(t) \/ CreateLocksCandidate(t)
    BY <1>0, <2>6, SeatTake DEF LockInvitation, LockMembership, CreateLocksFamily,
         CreateLocksPrimary, CreateLocksCandidate, At
  <2>7. CASE AcceptLocksCase(t) \/ AcceptLocksFamily(t) \/ AcceptLocksPrimary(t)
             \/ WriteCancellation(t) \/ LockCode(t) \/ RedeemLocksCode(t) \/ RedeemLocksFamily(t)
    BY <1>0, <2>7, SeatTake DEF AcceptLocksCase, AcceptLocksFamily, AcceptLocksPrimary,
         WriteCancellation, LockCode, RedeemLocksCode, RedeemLocksFamily, At
  <2> QED BY <1>2, <2>1, <2>2, <2>3, <2>4, <2>5, <2>6, <2>7 DEF Step
<1>3. ASSUME NEW t \in Txns, ConnectionLost(t) PROVE SeatInv'
  BY <1>0, <1>3, SeatEnd DEF ConnectionLost, Refuse, rows, Current
<1>4. CASE Lapse
  <2>1. status' = status /\ UNCHANGED txns
    BY <1>4 DEF Lapse
  <2> QED BY <2>1 DEF txns, SeatInv, OneCurrentMembership, Current, Inserting, At
<1>5. CASE UNCHANGED vars
  BY <1>5 DEF vars, rows, txns, SeatInv, OneCurrentMembership, Current, Inserting, At
<1> QED BY <1>1, <1>2, <1>3, <1>4, <1>5 DEF Next

\* However invitations and codes race, an account is in the family once: the partial unique
\* index has the last word, and waits for an entry that is not committed
\* (createMembershipInvitation, redeem of family-invite-codes.js).
THEOREM OneMembershipEach == Spec => []OneCurrentMembership
<1>1. Init => SeatInv
  BY DEF Init, SeatInv, OneCurrentMembership, Current, At
<1>2. FamilyInv /\ SeatInv /\ [Next]_vars => SeatInv'
  BY SeatKept
<1>3. SeatInv => OneCurrentMembership
  BY DEF SeatInv
<1> QED BY <1>1, <1>2, <1>3, FamilyInvariant, PTL DEF Spec
=============================================================================
