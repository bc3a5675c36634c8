-------------------------- MODULE FamilyMembership --------------------------
(***************************************************************************)
(* The members of one family and the office of its primary guardian:       *)
(* invitations, invite codes, removals and guardian transfers, as the      *)
(* transactions of postgres-foundation-store.js and family-invite-codes.js *)
(* run them on PostgreSQL at READ COMMITTED.                               *)
(*                                                                         *)
(* A transaction is a sequence of steps: it begins with the unlocked read  *)
(* that authorizes it, then takes row locks one by one (SELECT ... FOR     *)
(* UPDATE sees the row as it is once the lock is had), and its writes take *)
(* effect with its last step.  FOR UPDATE on the family row also blocks    *)
(* the foreign key checks of every INSERT, the audit row among them.       *)
(***************************************************************************)
EXTENDS Integers, FiniteSets

CONSTANTS Members,    \* rows family_memberships has or may get
          Subjects,   \* accounts
          SubjectOf,  \* the account a membership row is for
          Founder,    \* the row createFamily inserts
          Cases,      \* rows guardian_continuity_cases may get
          Codes,      \* rows family_invite_codes may get
          InviteRoles,\* the roles an invitation may name
          MaxOpenCodes, \* MAX_OPEN_INVITE_CODES_PER_FAMILY
          Txns,       \* transactions that run at once
          Kinds,      \* the operations requests ask for
          Family,     \* the families row
          None

ASSUME SubjectAssumption == SubjectOf \in [Members -> Subjects] /\ Founder \in Members
ASSUME RowsAssumption ==
  /\ Members \cap Cases = {} /\ Members \cap Codes = {} /\ Cases \cap Codes = {}
  /\ Family \notin Members \cup Cases \cup Codes
  /\ None \notin Members \cup Cases \cup Codes \cup Subjects \cup Txns \cup {Family}
ASSUME RolesAssumption == InviteRoles \subseteq {"co_guardian", "child"}
ASSUME BoundAssumption == MaxOpenCodes \in Nat /\ IsFiniteSet(Codes)

Operations == {"invite", "accept", "revoke", "createTransfer", "acceptTransfer",
               "cancelTransfer", "issueCode", "revokeCode", "redeemCode"}
ASSUME KindsAssumption == Kinds \subseteq Operations

VARIABLES
  role, status, \* family_memberships
  primary,      \* families.primary_membership_id
  case,         \* guardian_continuity_cases
  code,         \* family_invite_codes
  lapsed,       \* the cases and codes whose expires_at has passed
  joinedBy,     \* joinedBy[m]: the code redeemed for m; kept by the audit trail
  lock,         \* lock[x]: the transaction that holds row x FOR UPDATE
  op, pc,       \* the operation a transaction is, and its next statement
  self,         \* the membership that authorized it
  who,          \* the account it is about
  item,         \* the row it is about
  asOf          \* lapsed when it began: NOW() is the start of a transaction

rows == <<role, status, primary, case, code, lapsed, joinedBy>>
txns == <<lock, op, pc, self, who, item, asOf>>
vars == <<rows, txns>>

-----------------------------------------------------------------------------
MemberStatus == {"absent", "invited", "active", "revoked", "removed"}
Roles == {"none", "primary_guardian", "co_guardian", "child"}
CaseStatus == {"absent", "pending_acceptance", "completed", "cancelled", "expired"}
CodeStatus == {"absent", "open", "revoked", "redeemed"}
Rows == {Family} \cup Members \cup Cases \cup Codes
Steps == {"idle", "lockItem", "lockFamily", "lockPrimary", "lockCandidate", "write",
          "commit"}

NoCode == [status |-> "absent", role |-> "none"]
NoCase == [status |-> "absent", initiator |-> None, candidate |-> None]

\* createFamily.
Init ==
  /\ role = [m \in Members |-> IF m = Founder THEN "primary_guardian" ELSE "none"]
  /\ status = [m \in Members |-> IF m = Founder THEN "active" ELSE "absent"]
  /\ primary = Founder
  /\ case = [c \in Cases |-> NoCase]
  /\ code = [c \in Codes |-> NoCode]
  /\ lapsed = {}
  /\ joinedBy = [m \in Members |-> None]
  /\ lock = [x \in Rows |-> None]
  /\ op = [t \in Txns |-> "none"]
  /\ pc = [t \in Txns |-> "idle"]
  /\ self = [t \in Txns |-> None]
  /\ who = [t \in Txns |-> None]
  /\ item = [t \in Txns |-> None]
  /\ asOf = [t \in Txns |-> {}]

Pending == {c \in Cases : case[c].status = "pending_acceptance"}
Current(s) == {m \in Members : SubjectOf[m] = s /\ status[m] \in {"invited", "active"}}
\* Bound: the rows an account has left.
Fresh(s) == {m \in Members : SubjectOf[m] = s /\ status[m] = "absent"}

\* activeActorMembership with primaryGuardianOnly: a read without a lock.
ActivePrimary == {m \in Members : role[m] = "primary_guardian" /\ status[m] = "active"}

-----------------------------------------------------------------------------
(* Beginning, locking, ending.                                             *)

Begin(t, kind, step, me, account, row) ==
  /\ kind \in Kinds
  /\ pc[t] = "idle"
  /\ op' = [op EXCEPT ![t] = kind]
  /\ pc' = [pc EXCEPT ![t] = step]
  /\ self' = [self EXCEPT ![t] = me]
  /\ who' = [who EXCEPT ![t] = account]
  /\ item' = [item EXCEPT ![t] = row]
  /\ asOf' = [asOf EXCEPT ![t] = lapsed]
  /\ UNCHANGED <<rows, lock>>

At(t, kind, step) == op[t] = kind /\ pc[t] = step

Free(t, x) == lock[x] \in {None, t}

Take(t, x, step) ==
  /\ lock' = [lock EXCEPT ![x] = t]
  /\ pc' = [pc EXCEPT ![t] = step]
  /\ UNCHANGED <<rows, op, self, who, item, asOf>>

\* COMMIT and ROLLBACK both let go of every lock.
End(t) ==
  /\ lock' = [x \in Rows |-> IF lock[x] = t THEN None ELSE lock[x]]
  /\ op' = [op EXCEPT ![t] = "none"]
  /\ pc' = [pc EXCEPT ![t] = "idle"]
  /\ self' = [self EXCEPT ![t] = None]
  /\ who' = [who EXCEPT ![t] = None]
  /\ item' = [item EXCEPT ![t] = None]
  /\ asOf' = [asOf EXCEPT ![t] = {}]

Refuse(t) == End(t) /\ UNCHANGED rows

\* SELECT ... FOR UPDATE of a row, and what is checked of it then.
LockAndCheck(t, x, ok, step) ==
  /\ Free(t, x)
  /\ IF ok THEN Take(t, x, step) ELSE Refuse(t)

-----------------------------------------------------------------------------
(* createMembershipInvitation.                                             *)

BeginInvite(t) ==
  \E me \in ActivePrimary, s \in Subjects :
    /\ s # SubjectOf[me]
    /\ Begin(t, "invite", "write", me, s, None)

\* The invitations that have their index entry and wait for the family row.
Inserting(s) == {t \in Txns : At(t, "invite", "commit") /\ who[t] = s}

\* The duplicate check and the INSERT: the partial unique index has the last word,
\* and waits for an uncommitted row of the same account.
InsertInvite(t) ==
  /\ At(t, "invite", "write")
  /\ Inserting(who[t]) = {}
  /\ IF Current(who[t]) # {} \/ Fresh(who[t]) = {}
     THEN Refuse(t)
     ELSE /\ pc' = [pc EXCEPT ![t] = "commit"]
          /\ UNCHANGED <<rows, lock, op, self, who, item, asOf>>

CommitInvite(t) ==
  /\ At(t, "invite", "commit")
  /\ Free(t, Family)
  /\ \E m \in Fresh(who[t]), r \in InviteRoles :
       /\ role' = [role EXCEPT ![m] = r]
       /\ status' = [status EXCEPT ![m] = "invited"]
  /\ End(t)
  /\ UNCHANGED <<primary, case, code, lapsed, joinedBy>>

(* acceptMembershipInvitation: the membership is locked before the family. *)

BeginAccept(t) ==
  \E m \in Members :
    /\ status[m] # "absent"
    /\ Begin(t, "accept", "lockItem", None, SubjectOf[m], m)

LockInvitation(t) ==
  /\ At(t, "accept", "lockItem")
  /\ LockAndCheck(t, item[t], TRUE, "lockFamily")

\* Mutant: the status the row had before it was locked is trusted.
AcceptInvitationBlind(t) ==
  /\ At(t, "accept", "lockFamily")
  /\ Free(t, Family)
  /\ status' = [status EXCEPT ![item[t]] = "active"]
  /\ End(t)
  /\ UNCHANGED <<role, primary, case, code, lapsed, joinedBy>>

AcceptInvitation(t) ==
  /\ At(t, "accept", "lockFamily")
  /\ Free(t, Family)
  /\ IF status[item[t]] # "invited"
     THEN Refuse(t)
     ELSE /\ status' = [status EXCEPT ![item[t]] = "active"]
          /\ End(t)
          /\ UNCHANGED <<role, primary, case, code, lapsed, joinedBy>>

(* revokeMembership.                                                       *)

BeginRevoke(t) ==
  \E me \in ActivePrimary, m \in Members :
    /\ status[m] # "absent"
    /\ Begin(t, "revoke", "lockItem", me, None, m)

\* Mutant: a removal does not look at the role.
LockAnyMembership(t) ==
  /\ At(t, "revoke", "lockItem")
  /\ LockAndCheck(t, item[t], status[item[t]] \in {"invited", "active"}, "commit")

LockMembership(t) ==
  /\ At(t, "revoke", "lockItem")
  /\ LockAndCheck(t, item[t],
       role[item[t]] # "primary_guardian" /\ status[item[t]] \in {"invited", "active"},
       "commit")

RevokeMembership(t) ==
  /\ At(t, "revoke", "commit")
  /\ Free(t, Family)
  /\ status' = [status EXCEPT ![item[t]] =
                  IF @ = "invited" THEN "revoked" ELSE "removed"]
  /\ End(t)
  /\ UNCHANGED <<role, primary, case, code, lapsed, joinedBy>>

-----------------------------------------------------------------------------
(* createGuardianTransfer.                                                 *)

BeginCreate(t) ==
  \E me \in ActivePrimary, m \in Members :
    /\ status[m] # "absent"
    /\ Begin(t, "createTransfer", "lockFamily", me, None, m)

\* lockedFamilyPrimary: the family row, then the row it points to.
CreateLocksFamily(t) ==
  /\ At(t, "createTransfer", "lockFamily")
  /\ LockAndCheck(t, Family, TRUE, "lockPrimary")

CreateLocksPrimary(t) ==
  /\ At(t, "createTransfer", "lockPrimary")
  /\ LockAndCheck(t, primary,
       /\ role[primary] = "primary_guardian"
       /\ status[primary] = "active"
       /\ primary = self[t],
       "lockCandidate")

CreateLocksCandidate(t) ==
  /\ At(t, "createTransfer", "lockCandidate")
  /\ LockAndCheck(t, item[t],
       role[item[t]] = "co_guardian" /\ status[item[t]] = "active", "write")

\* A cancellation that wrote its case and has not committed.
Cancelling == {t \in Txns : At(t, "cancelTransfer", "commit")}

\* The unique index on pending cases waits for it.
InsertCase(t) ==
  /\ At(t, "createTransfer", "write")
  /\ Cancelling = {}
  /\ IF Pending # {} \/ NoCase \notin {case[c] : c \in Cases}
     THEN Refuse(t)
     ELSE /\ \E c \in Cases :
               /\ case[c] = NoCase
               /\ case' = [case EXCEPT ![c] =
                    [status |-> "pending_acceptance", initiator |-> self[t],
                     candidate |-> item[t]]]
          /\ End(t)
          /\ UNCHANGED <<role, status, primary, code, lapsed, joinedBy>>

(* acceptGuardianTransfer.                                                 *)

BeginAcceptTransfer(t) ==
  \E c \in Cases, s \in Subjects :
    /\ case[c] # NoCase
    /\ Begin(t, "acceptTransfer", "lockItem", None, s, c)

\* Mutant: the candidate's row before the family's.
AcceptLocksCandidateFirst(t) ==
  /\ At(t, "acceptTransfer", "lockItem")
  /\ Free(t, item[t])
  /\ Free(t, case[item[t]].candidate)
  /\ IF case[item[t]].status = "pending_acceptance"
     THEN /\ lock' = [lock EXCEPT ![item[t]] = t, ![case[item[t]].candidate] = t]
          /\ pc' = [pc EXCEPT ![t] = "lockFamily"]
          /\ UNCHANGED <<rows, op, self, who, item, asOf>>
     ELSE Refuse(t)

AcceptLocksCase(t) ==
  /\ At(t, "acceptTransfer", "lockItem")
  /\ LockAndCheck(t, item[t], case[item[t]].status = "pending_acceptance", "lockFamily")

AcceptLocksFamily(t) ==
  /\ At(t, "acceptTransfer", "lockFamily")
  /\ LockAndCheck(t, Family, TRUE, "lockPrimary")

\* lockedFamilyPrimary; a candidate of another account is not found, nor locked.
AcceptLocksPrimary(t) ==
  /\ At(t, "acceptTransfer", "lockPrimary")
  /\ LockAndCheck(t, primary,
       /\ role[primary] = "primary_guardian"
       /\ status[primary] = "active"
       /\ primary = case[item[t]].initiator
       /\ SubjectOf[case[item[t]].candidate] = who[t],
       "lockCandidate")

\* Mutant: the candidate's membership is not looked at again.
AcceptTransferUnchecked(t) ==
  LET from == case[item[t]].initiator
      to == case[item[t]].candidate
  IN /\ At(t, "acceptTransfer", "lockCandidate")
     /\ Free(t, to)
     /\ role' = [role EXCEPT ![from] = "co_guardian", ![to] = "primary_guardian"]
     /\ primary' = to
     /\ case' = [case EXCEPT ![item[t]].status = "completed"]
     /\ End(t)
     /\ UNCHANGED <<status, code, lapsed, joinedBy>>

\* The candidate's row, the deadline and the swap of the two roles.
AcceptTransfer(t) ==
  LET c == item[t]
      from == case[c].initiator
      to == case[c].candidate
  IN /\ At(t, "acceptTransfer", "lockCandidate")
     /\ Free(t, to)
     /\ \/ /\ c \in lapsed
           /\ case' = [case EXCEPT ![c].status = "expired"]
           /\ UNCHANGED <<role, primary>>
        \/ /\ c \notin lapsed
           /\ role[to] = "co_guardian"
           /\ status[to] = "active"
           /\ role' = [role EXCEPT ![from] = "co_guardian", ![to] = "primary_guardian"]
           /\ primary' = to
           /\ case' = [case EXCEPT ![c].status = "completed"]
        \/ /\ c \notin lapsed
           /\ role[to] # "co_guardian" \/ status[to] # "active"
           /\ UNCHANGED <<role, primary, case>>
     /\ End(t)
     /\ UNCHANGED <<status, code, lapsed, joinedBy>>

(* cancelGuardianTransfer.                                                 *)

BeginCancel(t) ==
  \E me \in ActivePrimary, c \in Cases :
    /\ case[c] # NoCase
    /\ Begin(t, "cancelTransfer", "lockItem", me, None, c)

\* The lock, the checks and the UPDATE; the audit row then waits for the family.
WriteCancellation(t) ==
  /\ At(t, "cancelTransfer", "lockItem")
  /\ LockAndCheck(t, item[t],
       /\ case[item[t]].initiator = self[t]
       /\ case[item[t]].status = "pending_acceptance",
       "commit")

CommitCancellation(t) ==
  /\ At(t, "cancelTransfer", "commit")
  /\ Free(t, Family)
  /\ case' = [case EXCEPT ![item[t]].status = "cancelled"]
  /\ End(t)
  /\ UNCHANGED <<role, status, primary, code, lapsed, joinedBy>>

-----------------------------------------------------------------------------
(* Invite codes: issue, revoke, redeem.                                    *)

BeginIssue(t) ==
  \E me \in ActivePrimary : Begin(t, "issueCode", "lockFamily", me, None, None)

OpenCodes(past) == {c \in Codes : code[c].status = "open" /\ c \notin past}

\* Mutant: one more code than the ceiling.
IssueOneMore(t) ==
  /\ At(t, "issueCode", "lockFamily")
  /\ Free(t, Family)
  /\ IF Cardinality(OpenCodes(asOf[t])) > MaxOpenCodes
     THEN Refuse(t)
     ELSE /\ \E c \in Codes, r \in InviteRoles :
               /\ code[c] = NoCode
               /\ code' = [code EXCEPT ![c] = [status |-> "open", role |-> r]]
          /\ End(t)
          /\ UNCHANGED <<role, status, primary, case, lapsed, joinedBy>>

\* One issuer at a time per family, so that the ceiling cannot be raced past.
IssueCode(t) ==
  /\ At(t, "issueCode", "lockFamily")
  /\ Free(t, Family)
  /\ IF \/ Cardinality(OpenCodes(asOf[t])) >= MaxOpenCodes
        \/ \A c \in Codes : code[c] # NoCode
     THEN Refuse(t)
     ELSE /\ \E c \in Codes, r \in InviteRoles :
               /\ code[c] = NoCode
               /\ code' = [code EXCEPT ![c] = [status |-> "open", role |-> r]]
          /\ End(t)
          /\ UNCHANGED <<role, status, primary, case, lapsed, joinedBy>>

BeginRevokeCode(t) ==
  \E me \in ActivePrimary, c \in Codes :
    /\ code[c] # NoCode
    /\ Begin(t, "revokeCode", "lockItem", me, None, c)

LockCode(t) ==
  /\ At(t, "revokeCode", "lockItem")
  /\ LockAndCheck(t, item[t], code[item[t]].status = "open", "commit")

RevokeCode(t) ==
  /\ At(t, "revokeCode", "commit")
  /\ Free(t, Family)
  /\ code' = [code EXCEPT ![item[t]].status = "revoked"]
  /\ End(t)
  /\ UNCHANGED <<role, status, primary, case, lapsed, joinedBy>>

BeginRedeem(t) ==
  \E s \in Subjects, c \in OpenCodes(lapsed) :
    Begin(t, "redeemCode", "lockItem", None, s, c)

\* SELECT ... WHERE status = 'open' FOR UPDATE OF invite, family: a row that changed
\* while it waited is checked again.
\* Mutant: the code is locked and not read again.
RedeemLocksStaleCode(t) ==
  /\ At(t, "redeemCode", "lockItem")
  /\ LockAndCheck(t, item[t], TRUE, "lockFamily")

RedeemLocksCode(t) ==
  /\ At(t, "redeemCode", "lockItem")
  /\ LockAndCheck(t, item[t], code[item[t]].status = "open", "lockFamily")

RedeemLocksFamily(t) ==
  /\ At(t, "redeemCode", "lockFamily")
  /\ LockAndCheck(t, Family, Current(who[t]) = {}, "write")

RedeemCode(t) ==
  /\ At(t, "redeemCode", "write")
  /\ Inserting(who[t]) = {}
  /\ IF Current(who[t]) # {} \/ Fresh(who[t]) = {}
     THEN Refuse(t)
     ELSE /\ \E m \in Fresh(who[t]) :
               /\ role' = [role EXCEPT ![m] = code[item[t]].role]
               /\ status' = [status EXCEPT ![m] = "active"]
               /\ joinedBy' = [joinedBy EXCEPT ![m] = item[t]]
          /\ code' = [code EXCEPT ![item[t]].status = "redeemed"]
          /\ End(t)
          /\ UNCHANGED <<primary, case, lapsed>>

-----------------------------------------------------------------------------
(* The database.                                                           *)

\* The row whose lock the next step of t needs.
Wanted(t) ==
  CASE pc[t] = "lockItem" -> item[t]
    [] pc[t] = "lockPrimary" -> primary
    [] pc[t] = "lockCandidate" ->
         IF op[t] = "acceptTransfer" THEN case[item[t]].candidate ELSE item[t]
    [] pc[t] \in {"lockFamily", "commit"} -> Family
    [] OTHER -> None

\* The transactions t waits for.
WaitsFor(t) ==
  (CASE At(t, "createTransfer", "write") -> Cancelling
     [] pc[t] = "write" /\ op[t] \in {"invite", "redeemCode"} -> Inserting(who[t])
     [] Wanted(t) \in Rows -> {lock[Wanted(t)]}
     [] OTHER -> {}) \ {None, t}

\* Each waits for another of them.
Circle(ring) ==
  /\ ring # {}
  /\ \A u \in ring : /\ WaitsFor(u) \cap ring # {}
                     /\ \E v \in ring : u \in WaitsFor(v)

Deadlocked(t) == \E ring \in SUBSET Txns : t \in ring /\ Circle(ring)

\* The deadlock detector of PostgreSQL ends one of them.
DeadlockDetected(t) == Deadlocked(t) /\ Refuse(t)

\* The process or its connection ends within a transaction.
ConnectionLost(t) == pc[t] # "idle" /\ Refuse(t)

Lapse ==
  /\ \E x \in Pending \cup OpenCodes({}) : x \notin lapsed /\ lapsed' = lapsed \cup {x}
  /\ UNCHANGED <<role, status, primary, case, code, joinedBy, txns>>

-----------------------------------------------------------------------------
BeginSome(t) ==
  \/ BeginInvite(t)
  \/ BeginAccept(t)
  \/ BeginRevoke(t)
  \/ BeginCreate(t)
  \/ BeginAcceptTransfer(t)
  \/ BeginCancel(t)
  \/ BeginIssue(t)
  \/ BeginRevokeCode(t)
  \/ BeginRedeem(t)

Step(t) ==
  \/ InsertInvite(t)
  \/ CommitInvite(t)
  \/ LockInvitation(t)
  \/ AcceptInvitation(t)
  \/ LockMembership(t)
  \/ RevokeMembership(t)
  \/ CreateLocksFamily(t)
  \/ CreateLocksPrimary(t)
  \/ CreateLocksCandidate(t)
  \/ InsertCase(t)
  \/ AcceptLocksCase(t)
  \/ AcceptLocksFamily(t)
  \/ AcceptLocksPrimary(t)
  \/ AcceptTransfer(t)
  \/ WriteCancellation(t)
  \/ CommitCancellation(t)
  \/ IssueCode(t)
  \/ LockCode(t)
  \/ RevokeCode(t)
  \/ RedeemLocksCode(t)
  \/ RedeemLocksFamily(t)
  \/ RedeemCode(t)
  \/ DeadlockDetected(t)

Next ==
  \/ \E t \in Txns : BeginSome(t) \/ Step(t) \/ ConnectionLost(t)
  \/ Lapse

Spec == Init /\ [][Next]_vars

-----------------------------------------------------------------------------
(* Properties.                                                             *)

\* Every variable keeps to its domain.
TypeOK ==
  /\ role \in [Members -> Roles]
  /\ status \in [Members -> MemberStatus]
  /\ primary \in Members
  /\ case \in [Cases -> [status : CaseStatus, initiator : Members \cup {None},
                       candidate : Members \cup {None}]]
  /\ code \in [Codes -> [status : CodeStatus, role : InviteRoles \cup {"none"}]]
  /\ lapsed \subseteq Cases \cup Codes
  /\ joinedBy \in [Members -> Codes \cup {None}]
  /\ lock \in [Rows -> Txns \cup {None}]
  /\ op \in [Txns -> Operations \cup {"none"}]
  /\ pc \in [Txns -> Steps]
  /\ self \in [Txns -> Members \cup {None}]
  /\ who \in [Txns -> Subjects \cup {None}]
  /\ item \in [Txns -> Rows \cup {None}]
  /\ asOf \in [Txns -> SUBSET (Cases \cup Codes)]

\* The family always has one active primary guardian, the one it points to.
OnePrimary == ActivePrimary = {primary}

\* A transfer that awaits acceptance is the only one, and was asked for by whoever
\* is the primary guardian now.
PendingIsThePrimarys ==
  \A c \in Pending : Pending = {c} /\ case[c].initiator = primary

\* An account has one current membership, however invitations and codes race.
OneCurrentMembership == \A s \in Subjects : \A m, n \in Current(s) : m = n

\* The ceiling of open invite codes is not raced past.
OpenCodesBounded == Cardinality(OpenCodes(lapsed)) <= MaxOpenCodes

\* A code makes one member, and only while it is open: what was redeemed or revoked
\* stays so (redeem and revoke of family-invite-codes.js).
CodeSpentOnce ==
  [][/\ \A m \in Members : joinedBy'[m] # joinedBy[m] =>
          code[joinedBy'[m]].status = "open" /\ code'[joinedBy'[m]].status = "redeemed"
     /\ \A c \in Codes : code[c].status \in {"redeemed", "revoked"} =>
          code'[c].status = code[c].status]_vars

\* A revoked invitation is never accepted and a removed member never comes back by
\* the same row.
RemovedStaysOut ==
  [][\A m \in Members : status[m] \in {"revoked", "removed"} => status'[m] = status[m]]_vars

\* Only the current primary guardian cancels a transfer, and only a pending one.
CancelledByPrimary ==
  [][\A c \in Cases : case[c].status # "cancelled" /\ case'[c].status = "cancelled" =>
       /\ c \in Pending
       /\ \E t \in Txns : op[t] = "cancelTransfer" /\ item[t] = c /\ self[t] = primary]_vars

\* Transfers and invite codes, among themselves, lock in an order that cannot form a circle
\* (lockedFamilyPrimary, then the candidate; issue and redeem).
NoRoleSwapDeadlock ==
  \A ring \in SUBSET {t \in Txns : op[t] \in {"createTransfer", "acceptTransfer",
                                            "issueCode", "redeemCode"}} : ~Circle(ring)

\* The membership operations keep the promises of FamilyRoster.
Roster == INSTANCE FamilyRoster WITH
  active <- {m \in Members : status[m] = "active"}

KeepsRoster == Roster!Spec

-----------------------------------------------------------------------------
(* The inductive invariant behind the theorems.                            *)

\* Only the primary has the role, and is active.
OfficeHeld ==
  /\ {m \in Members : role[m] = "primary_guardian"} = {primary}
  /\ status[primary] = "active"

\* A pending case names two memberships.
PendingNamesMembers ==
  \A c \in Pending : case[c].initiator \in Members /\ case[c].candidate \in Members

\* A transaction knows rows of the kind its operation is about.
Owns(t) ==
  /\ op[t] \in {"accept", "revoke", "createTransfer"} => item[t] \in Members
  /\ op[t] \in {"acceptTransfer", "cancelTransfer"} => item[t] \in Cases
  /\ op[t] \in {"revokeCode", "redeemCode"} => item[t] \in Codes
  /\ op[t] \in {"createTransfer", "cancelTransfer"} => self[t] \in Members

OwnsItem == \A t \in Txns : Owns(t)

\* What a transaction checked under a lock it still holds is still true.
Checks(t) ==
  /\ At(t, "accept", "lockFamily") => lock[item[t]] = t
  /\ At(t, "revoke", "commit") =>
       /\ lock[item[t]] = t
       /\ role[item[t]] # "primary_guardian"
       /\ status[item[t]] \in {"invited", "active"}
  /\ op[t] = "createTransfer" =>
       /\ pc[t] \in {"lockPrimary", "lockCandidate", "write"} => lock[Family] = t
       /\ pc[t] \in {"lockCandidate", "write"} => primary = self[t]
  /\ op[t] = "acceptTransfer" =>
       /\ pc[t] \in {"lockFamily", "lockPrimary", "lockCandidate"} =>
            lock[item[t]] = t /\ item[t] \in Pending
       /\ pc[t] \in {"lockPrimary", "lockCandidate"} => lock[Family] = t
       /\ pc[t] = "lockCandidate" => lock[primary] = t
  /\ At(t, "cancelTransfer", "commit") =>
       /\ lock[item[t]] = t
       /\ item[t] \in Pending
       /\ case[item[t]].initiator = self[t]

ChecksHold == \A t \in Txns : Checks(t)

FamilyInv ==
  /\ TypeOK
  /\ OfficeHeld
  /\ PendingIsThePrimarys
  /\ PendingNamesMembers
  /\ OwnsItem
  /\ ChecksHold

=============================================================================
