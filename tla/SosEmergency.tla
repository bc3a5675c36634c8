---------------------------- MODULE SosEmergency ----------------------------
(***************************************************************************)
(* The emergency surface of one family: presses of the button, the         *)
(* acknowledgement, escalation and closure of incidents, the ladder of     *)
(* backup contacts, and the revocation of a device in the middle of them,  *)
(* as the transactions of sos-emergency.js and device-revocation.js run    *)
(* them on PostgreSQL at READ COMMITTED.                                   *)
(*                                                                         *)
(* A transaction is a sequence of steps.  It locks rows one by one; what   *)
(* it reads without a lock may change before it ends; its writes take      *)
(* effect with its last step.                                              *)
(***************************************************************************)
EXTENDS Integers, FiniteSets

CONSTANTS Children, Devices,
          ChildOf,     \* the child a device is paired for
          Guardians,   \* the active guardian memberships
          Alerts,      \* rows family_sos_alerts may get
          Presses,     \* presses of the button, each with its Idempotency-Key
          By,          \* who sent a press: a device, by its credential, or a guardian
          Via,         \* the device a press came through, None for the account route
          About,       \* the child a press is about
          Fix,         \* the device whose stored position a press names, or None
          Contacts,    \* rows family_sos_backup_contacts may get
          Phones,
          MaxContacts, \* MAX_BACKUP_CONTACTS
          Txns,        \* transactions that run at once
          Kinds,       \* the operations requests ask for
          None

ASSUME DevicesAssumption == ChildOf \in [Devices -> Children]
ASSUME PressAssumption ==
  /\ By \in [Presses -> Devices \cup Guardians]
  /\ Via \in [Presses -> Devices \cup {None}]
  /\ About \in [Presses -> Children]
  /\ Fix \in [Presses -> Devices \cup {None}]
  /\ \A p \in Presses : /\ By[p] \in Devices => Via[p] = By[p]
                        /\ Via[p] # None => About[p] = ChildOf[Via[p]]
                        /\ Fix[p] # None => About[p] = ChildOf[Fix[p]]
ASSUME RowsAssumption ==
  /\ Devices \cap Alerts = {} /\ Devices \cap Presses = {} /\ Devices \cap Contacts = {}
  /\ Alerts \cap Presses = {} /\ Alerts \cap Contacts = {} /\ Presses \cap Contacts = {}
  /\ Guardians \cap Devices = {}
  /\ None \notin Children \cup Devices \cup Guardians \cup Alerts \cup Presses
                 \cup Contacts \cup Phones \cup Txns
ASSUME BoundAssumption == MaxContacts \in Nat

Operations == {"fire", "acknowledge", "escalate", "resolve", "revoke",
               "addContact", "changeContact"}
ASSUME KindsAssumption == Kinds \subseteq Operations

VARIABLES
  alert,    \* family_sos_alerts
  rung,     \* rung[a]: the contacts with an sms row in family_sos_alert_deliveries
  slot,     \* slot[p]: the incident in the stored answer of press p
  revoked,  \* family_child_devices with credential_revoked_at
  contact,  \* family_sos_backup_contacts
  failed,   \* the operations a constraint of the database has ended with an error
  lock,     \* lock[x]: the transaction that holds row, or key, x
  op, pc,   \* the operation a transaction is, and its next statement
  by, via,  \* who sent the request, and the device it came through
  item,     \* the row or press it is about
  arg,      \* the terminal reason or the phone number in the request
  chosen    \* the contacts an escalation read

rows == <<alert, rung, slot, revoked, contact, failed>>
txns == <<lock, op, pc, by, via, item, arg, chosen>>
vars == <<rows, txns>>

-----------------------------------------------------------------------------
OpenStatuses == {"active", "acknowledged", "escalating"}
Statuses == OpenStatuses \cup {"absent", "resolved"}
Reasons == {"helped", "false_alarm"}
Verifications == {"unverified", "verified", "revoked"}
Rows == Devices \cup Alerts \cup Presses \cup Contacts
Actors == Devices \cup Guardians \cup {None}
Steps == {"idle", "lockSlot", "lockDevice", "lockItem", "look", "insert", "archive", "commit"}

NoAlert == [status |-> "absent", child |-> None, press |-> None, fix |-> None,
            ack |-> None, climber |-> None, closer |-> None, reason |-> None]
NoContact == [status |-> "absent", phone |-> None, verification |-> "unverified",
              enabled |-> TRUE]

Init ==
  /\ alert = [a \in Alerts |-> NoAlert]
  /\ rung = [a \in Alerts |-> {}]
  /\ slot = [p \in Presses |-> None]
  /\ revoked = {}
  /\ contact = [c \in Contacts |-> NoContact]
  /\ failed = {}
  /\ lock = [x \in Rows |-> None]
  /\ op = [t \in Txns |-> "none"]
  /\ pc = [t \in Txns |-> "idle"]
  /\ by = [t \in Txns |-> None]
  /\ via = [t \in Txns |-> None]
  /\ item = [t \in Txns |-> None]
  /\ arg = [t \in Txns |-> None]
  /\ chosen = [t \in Txns |-> {}]

Raised == {a \in Alerts : alert[a].status # "absent"}
Open == {a \in Alerts : alert[a].status \in OpenStatuses}
OpenFor(k) == {a \in Open : alert[a].child = k}
Live == {c \in Contacts : contact[c].status = "live"}
Holders(n) == {c \in Live : contact[c].phone = n}

-----------------------------------------------------------------------------
(* Beginning, locking, ending.                                             *)

Begin(t, kind, step, who, door, row, a) ==
  /\ kind \in Kinds
  /\ pc[t] = "idle"
  /\ op' = [op EXCEPT ![t] = kind]
  /\ pc' = [pc EXCEPT ![t] = step]
  /\ by' = [by EXCEPT ![t] = who]
  /\ via' = [via EXCEPT ![t] = door]
  /\ item' = [item EXCEPT ![t] = row]
  /\ arg' = [arg EXCEPT ![t] = a]
  /\ UNCHANGED <<rows, lock, chosen>>

At(t, kind, step) == op[t] = kind /\ pc[t] = step

Free(t, x) == lock[x] \in {None, t}

GoTo(t, step) ==
  /\ pc' = [pc EXCEPT ![t] = step]
  /\ UNCHANGED <<rows, lock, op, by, via, item, arg, chosen>>

Take(t, x, step) ==
  /\ lock' = [lock EXCEPT ![x] = t]
  /\ pc' = [pc EXCEPT ![t] = step]
  /\ UNCHANGED <<rows, op, by, via, item, arg, chosen>>

Forget(t) ==
  /\ op' = [op EXCEPT ![t] = "none"]
  /\ pc' = [pc EXCEPT ![t] = "idle"]
  /\ by' = [by EXCEPT ![t] = None]
  /\ via' = [via EXCEPT ![t] = None]
  /\ item' = [item EXCEPT ![t] = None]
  /\ arg' = [arg EXCEPT ![t] = None]
  /\ chosen' = [chosen EXCEPT ![t] = {}]

\* COMMIT and ROLLBACK both let go of every lock.
End(t) == lock' = [x \in Rows |-> IF lock[x] = t THEN None ELSE lock[x]] /\ Forget(t)

\* A refusal, or the answer that is already stored: nothing is written.
Refuse(t) == End(t) /\ UNCHANGED rows

\* A constraint ends the transaction; the client reads 500.
Fail(t) ==
  /\ End(t)
  /\ failed' = failed \cup {op[t]}
  /\ UNCHANGED <<alert, rung, slot, revoked, contact>>

LockAndCheck(t, x, ok, step) ==
  /\ Free(t, x)
  /\ IF ok THEN Take(t, x, step) ELSE Refuse(t)

\* A device speaks by a credential that is not revoked; a guardian may speak for it.
Speaks(t) == by[t] \in Devices => via[t] \notin revoked

-----------------------------------------------------------------------------
(* Pressing the button.                                                    *)

BeginFire(t) ==
  \E p \in Presses : Begin(t, "fire", "lockSlot", By[p], Via[p], p, None)

\* Mutant: the stored answer is not looked at.
FireLocksFreshSlot(t) ==
  /\ At(t, "fire", "lockSlot")
  /\ LockAndCheck(t, item[t], TRUE, IF via[t] = None THEN "look" ELSE "lockDevice")

\* acquireIdempotencySlot: a press that was answered is answered again.
FireLocksSlot(t) ==
  /\ At(t, "fire", "lockSlot")
  /\ LockAndCheck(t, item[t], slot[item[t]] = None,
                  IF via[t] = None THEN "look" ELSE "lockDevice")

\* Mutant: the device is read without its lock.
FireReadsDevice(t) ==
  /\ At(t, "fire", "lockDevice")
  /\ IF Speaks(t) THEN GoTo(t, "look") ELSE Refuse(t)

FireLocksDevice(t) ==
  /\ At(t, "fire", "lockDevice")
  /\ LockAndCheck(t, via[t], Speaks(t), "look")

\* Unlocked reads: the position it names is stored, no incident is in flight.
FireLooks(t) ==
  /\ At(t, "fire", "look")
  /\ IF Fix[item[t]] \in revoked \/ OpenFor(About[item[t]]) # {}
     THEN Refuse(t)
     ELSE GoTo(t, "insert")

\* The presses that have their row, uncommitted.
Pressing == {t \in Txns : At(t, "fire", "commit")}
PressingFor(k) == {t \in Pressing : About[item[t]] = k}
\* Bound: the alert rows that are left.
Unused == {a \in Alerts : alert[a].status = "absent"}

\* Mutant: no unique index on the child's incident in flight.
InsertAnyAlert(t) ==
  /\ At(t, "fire", "insert")
  /\ IF Cardinality(Unused) <= Cardinality(Pressing)
     THEN Refuse(t)
     ELSE GoTo(t, "commit")

\* The INSERT: family_sos_alerts_one_open_per_child waits for an uncommitted incident of
\* the child and refuses a second one; the foreign key refuses a position that is gone.
InsertAlert(t) ==
  /\ At(t, "fire", "insert")
  /\ PressingFor(About[item[t]]) = {}
  /\ IF Cardinality(Unused) <= Cardinality(Pressing)
     THEN Refuse(t)
     ELSE IF OpenFor(About[item[t]]) # {} \/ Fix[item[t]] \in revoked
          THEN Fail(t)
          ELSE GoTo(t, "commit")

CommitFire(t) ==
  /\ At(t, "fire", "commit")
  /\ \E a \in Unused :
       /\ alert' = [alert EXCEPT ![a] =
            [NoAlert EXCEPT !.status = "active", !.child = About[item[t]],
                            !.press = item[t], !.fix = Fix[item[t]]]]
       /\ slot' = [slot EXCEPT ![item[t]] = a]
  /\ End(t)
  /\ UNCHANGED <<rung, revoked, contact, failed>>

-----------------------------------------------------------------------------
(* Acknowledging and escalating.                                           *)

BeginAcknowledge(t) ==
  \E g \in Guardians, a \in Raised :
    Begin(t, "acknowledge", "lockItem", g, None, a, None)

\* Mutant: an incident that was acknowledged is acknowledged again.
AcknowledgeLocksAgain(t) ==
  /\ At(t, "acknowledge", "lockItem")
  /\ LockAndCheck(t, item[t], item[t] \in Open, "commit")

AcknowledgeLocks(t) ==
  /\ At(t, "acknowledge", "lockItem")
  /\ LockAndCheck(t, item[t], item[t] \in Open /\ alert[item[t]].ack = None, "commit")

CommitAcknowledge(t) ==
  /\ At(t, "acknowledge", "commit")
  /\ alert' = [alert EXCEPT
       ![item[t]].status = IF @ = "active" THEN "acknowledged" ELSE @,
       ![item[t]].ack = by[t]]
  /\ End(t)
  /\ UNCHANGED <<rung, slot, revoked, contact, failed>>

BeginEscalate(t) ==
  \E g \in Guardians, a \in Raised :
    Begin(t, "escalate", "lockItem", g, None, a, None)

EscalateLocks(t) ==
  /\ At(t, "escalate", "lockItem")
  /\ LockAndCheck(t, item[t], alert[item[t]].status \in {"active", "acknowledged"}, "look")

Eligible == {c \in Live : contact[c].verification = "verified" /\ contact[c].enabled}

ReadLadder(t) ==
  /\ At(t, "escalate", "look")
  /\ chosen' = [chosen EXCEPT ![t] = Eligible]
  /\ pc' = [pc EXCEPT ![t] = "commit"]
  /\ UNCHANGED <<rows, lock, op, by, via, item, arg>>

\* The rows of the ladder refer to the contacts: they wait for one that is being changed.
CommitEscalate(t) ==
  /\ At(t, "escalate", "commit")
  /\ \A c \in chosen[t] : Free(t, c)
  /\ alert' = [alert EXCEPT
       ![item[t]].status = IF @ = "resolved" THEN @ ELSE "escalating",
       ![item[t]].climber = by[t]]
  /\ rung' = [rung EXCEPT ![item[t]] = @ \cup chosen[t]]
  /\ End(t)
  /\ UNCHANGED <<slot, revoked, contact, failed>>

-----------------------------------------------------------------------------
(* Closing.                                                                *)

\* By an account, by the handset's credential, or by a guardian through a device route.
BeginResolve(t) ==
  \E a \in Raised, r \in Reasons :
    \/ \E g \in Guardians : Begin(t, "resolve", "lockItem", g, None, a, r)
    \/ \E d \in Devices, who \in Guardians \cup Devices :
         /\ who \in Devices => who = d
         /\ Begin(t, "resolve", "lockDevice", who, d, a, r)

\* Mutant: the incident is locked before the device.
ResolveLocksIncidentFirst(t) ==
  /\ At(t, "resolve", "lockDevice")
  /\ IF lock[item[t]] = t
     THEN LockAndCheck(t, via[t], Speaks(t), "lockItem")
     ELSE LockAndCheck(t, item[t], TRUE, "lockDevice")

ResolveLocksDevice(t) ==
  /\ At(t, "resolve", "lockDevice")
  /\ LockAndCheck(t, via[t], Speaks(t), "lockItem")

\* A device closes its own child's incident, as a false alarm.
MayClose(t) ==
  via[t] # None => ChildOf[via[t]] = alert[item[t]].child /\ arg[t] = "false_alarm"

ResolveLocks(t) ==
  /\ At(t, "resolve", "lockItem")
  /\ LockAndCheck(t, item[t], MayClose(t) /\ item[t] \in Open, "commit")

\* family_sos_alerts_resolution_single_closer refuses a member and a device at once.
CommitResolve(t) ==
  /\ At(t, "resolve", "commit")
  /\ IF via[t] # None /\ by[t] \in Guardians
     THEN Fail(t)
     ELSE /\ alert' = [alert EXCEPT ![item[t]].status = "resolved",
                                    ![item[t]].closer = by[t],
                                    ![item[t]].reason = arg[t]]
          /\ End(t)
          /\ UNCHANGED <<rung, slot, revoked, contact, failed>>

-----------------------------------------------------------------------------
(* Cutting a device off (device-revocation.js): the device, then the       *)
(* incidents that name its positions, then the positions.                  *)

BeginRevoke(t) ==
  \E g \in Guardians, d \in Devices \ revoked :
    Begin(t, "revoke", "lockDevice", g, None, d, None)

RevokeLocksDevice(t) ==
  /\ At(t, "revoke", "lockDevice")
  /\ LockAndCheck(t, item[t], item[t] \notin revoked, "lockItem")

Naming(d) == {a \in Raised : alert[a].fix = d}

\* UPDATE family_sos_alerts SET fix_id = NULL: locks what it names and remembers it.
RevokeLocksAlerts(t) ==
  /\ At(t, "revoke", "lockItem")
  /\ \A a \in Naming(item[t]) : Free(t, a)
  /\ lock' = [x \in Rows |-> IF x \in Naming(item[t]) THEN t ELSE lock[x]]
  /\ pc' = [pc EXCEPT ![t] = "commit"]
  /\ UNCHANGED <<rows, op, by, via, item, arg, chosen>>

\* Mutant: the positions go without their foreign key.
CommitLooseRevoke(t) ==
  /\ At(t, "revoke", "commit")
  /\ revoked' = revoked \cup {item[t]}
  /\ alert' = [a \in Alerts |-> IF lock[a] = t THEN [alert[a] EXCEPT !.fix = None]
                                            ELSE alert[a]]
  /\ End(t)
  /\ UNCHANGED <<rung, slot, contact, failed>>

\* DELETE of the positions: it waits for a press that is about to name one, and the
\* foreign key refuses the deletion when one did since the UPDATE.
CommitRevoke(t) ==
  /\ At(t, "revoke", "commit")
  /\ \A u \in Pressing : Fix[item[u]] # item[t]
  /\ IF \E a \in Naming(item[t]) : lock[a] # t
     THEN Fail(t)
     ELSE /\ revoked' = revoked \cup {item[t]}
          /\ alert' = [a \in Alerts |-> IF a \in Naming(item[t])
                                         THEN [alert[a] EXCEPT !.fix = None]
                                         ELSE alert[a]]
          /\ End(t)
          /\ UNCHANGED <<rung, slot, contact, failed>>

-----------------------------------------------------------------------------
(* The ladder.                                                             *)

BeginAddContact(t) ==
  \E g \in Guardians, n \in Phones :
    Begin(t, "addContact", "look", g, None, None, n)

\* COUNT(*), without a lock.
CountContacts(t) ==
  /\ At(t, "addContact", "look")
  /\ IF Cardinality(Live) >= MaxContacts THEN Refuse(t) ELSE GoTo(t, "insert")

\* A number is written, in a row that is not committed.
Numbering(t) ==
  \/ At(t, "addContact", "commit")
  \/ At(t, "changeContact", "commit") /\ arg[t] # None

\* Whose uncommitted row has the number n, or had it.
Writing(n) ==
  {t \in Txns : \/ Numbering(t) /\ arg[t] = n
                \/ /\ op[t] = "changeContact" /\ pc[t] \in {"archive", "commit"}
                   /\ contact[item[t]].phone = n}
\* Bound: the contact rows that are left.
Blank == {c \in Contacts : contact[c].status = "absent"}

\* family_sos_backup_contacts_phone_once waits for an uncommitted row of the number.
InsertContact(t) ==
  /\ At(t, "addContact", "insert")
  /\ Writing(arg[t]) = {}
  /\ IF Holders(arg[t]) # {} THEN Fail(t) ELSE GoTo(t, "commit")

CommitContact(t) ==
  /\ At(t, "addContact", "commit")
  /\ IF Blank = {}
     THEN Refuse(t)
     ELSE /\ \E c \in Blank :
               contact' = [contact EXCEPT ![c] = [NoContact EXCEPT !.status = "live",
                                                                  !.phone = arg[t]]]
          /\ End(t)
          /\ UNCHANGED <<alert, rung, slot, revoked, failed>>

BeginChangeContact(t) ==
  \E g \in Guardians, c \in Live, n \in Phones \cup {None} :
    Begin(t, "changeContact", "lockItem", g, None, c, n)

\* The contact's lock; a contact that is archived leaves the index with its UPDATE.
ChangeLocks(t) ==
  /\ At(t, "changeContact", "lockItem")
  /\ \E step \in {"insert", "archive"} : LockAndCheck(t, item[t], item[t] \in Live, step)

\* The UPDATE of a number waits, as an addition does, for an uncommitted row of it.
UpdateContact(t) ==
  /\ At(t, "changeContact", "insert")
  /\ arg[t] # None => Writing(arg[t]) = {}
  /\ IF arg[t] # None /\ Holders(arg[t]) \ {item[t]} # {}
     THEN Fail(t)
     ELSE GoTo(t, "commit")

Given(new, old) == IF new = None THEN old ELSE new

\* The UPDATE with COALESCE: what the request does not name stays as it is, the
\* verification of a number that is replaced included.
Changed(k, n, v, e) ==
  [k EXCEPT !.phone = Given(n, @), !.verification = Given(v, @), !.enabled = e]

ChangeContact(t) ==
  /\ At(t, "changeContact", "commit")
  /\ \E v \in Verifications \cup {None}, e \in BOOLEAN :
       contact' = [contact EXCEPT ![item[t]] = Changed(@, arg[t], v, e)]
  /\ End(t)
  /\ UNCHANGED <<alert, rung, slot, revoked, failed>>

ArchiveContact(t) ==
  /\ At(t, "changeContact", "archive")
  /\ contact' = [contact EXCEPT ![item[t]].status = "archived"]
  /\ End(t)
  /\ UNCHANGED <<alert, rung, slot, revoked, failed>>

-----------------------------------------------------------------------------
\* The rows the next statement of t locks.
Wanted(t) ==
  {x \in Rows :
     \/ pc[t] = "lockSlot" /\ x = item[t]
     \/ pc[t] = "lockDevice" /\ x = IF op[t] = "revoke" THEN item[t] ELSE via[t]
     \/ pc[t] = "lockItem" /\ IF op[t] = "revoke" THEN x \in Naming(item[t]) ELSE x = item[t]
     \/ At(t, "escalate", "commit") /\ x \in chosen[t]}

\* The transactions whose uncommitted rows it meets in an index or a foreign key.
Meets(t) ==
  {u \in Txns :
     \/ At(t, "fire", "insert") /\ u \in PressingFor(About[item[t]])
     \/ At(t, "revoke", "commit") /\ u \in Pressing /\ Fix[item[u]] = item[t]
     \/ At(t, "addContact", "insert") /\ u \in Writing(arg[t])
     \/ At(t, "changeContact", "insert") /\ arg[t] # None /\ u \in Writing(arg[t])}

WaitsFor(t) == {u \in Txns \ {t} : u \in Meets(t) \/ \E x \in Wanted(t) : lock[x] = u}

-----------------------------------------------------------------------------
\* The process or its connection ends within a transaction.
ConnectionLost(t) == pc[t] # "idle" /\ Refuse(t)

BeginSome(t) ==
  \/ BeginFire(t)
  \/ BeginAcknowledge(t)
  \/ BeginEscalate(t)
  \/ BeginResolve(t)
  \/ BeginRevoke(t)
  \/ BeginAddContact(t)
  \/ BeginChangeContact(t)

Step(t) ==
  \/ FireLocksSlot(t)
  \/ FireLocksDevice(t)
  \/ FireLooks(t)
  \/ InsertAlert(t)
  \/ CommitFire(t)
  \/ AcknowledgeLocks(t)
  \/ CommitAcknowledge(t)
  \/ EscalateLocks(t)
  \/ ReadLadder(t)
  \/ CommitEscalate(t)
  \/ ResolveLocksDevice(t)
  \/ ResolveLocks(t)
  \/ CommitResolve(t)
  \/ RevokeLocksDevice(t)
  \/ RevokeLocksAlerts(t)
  \/ CommitRevoke(t)
  \/ CountContacts(t)
  \/ InsertContact(t)
  \/ CommitContact(t)
  \/ ChangeLocks(t)
  \/ UpdateContact(t)
  \/ ChangeContact(t)
  \/ ArchiveContact(t)

Next == \E t \in Txns : BeginSome(t) \/ Step(t) \/ ConnectionLost(t)

Spec == Init /\ [][Next]_vars

-----------------------------------------------------------------------------
(* Properties.                                                             *)

TypeOK ==
  /\ alert \in [Alerts -> [status : Statuses, child : Children \cup {None},
                          press : Presses \cup {None}, fix : Devices \cup {None},
                          ack : Actors, climber : Actors, closer : Actors,
                          reason : Reasons \cup {None}]]
  /\ rung \in [Alerts -> SUBSET Contacts]
  /\ slot \in [Presses -> Alerts \cup {None}]
  /\ revoked \subseteq Devices
  /\ contact \in [Contacts -> [status : {"absent", "live", "archived"},
                              phone : Phones \cup {None},
                              verification : Verifications, enabled : BOOLEAN]]
  /\ failed \subseteq Operations
  /\ lock \in [Rows -> Txns \cup {None}]
  /\ op \in [Txns -> Operations \cup {"none"}]
  /\ pc \in [Txns -> Steps]
  /\ by \in [Txns -> Actors]
  /\ via \in [Txns -> Devices \cup {None}]
  /\ item \in [Txns -> Rows \cup {None}]
  /\ arg \in [Txns -> Reasons \cup Phones \cup {None}]
  /\ chosen \in [Txns -> SUBSET Contacts]

\* A child has at most one incident in flight, whoever presses for it and through
\* whichever door (createSosAlertFire; family_sos_alerts_one_open_per_child).
OneOpenIncident == \A a, b \in Open : alert[a].child = alert[b].child => a = b

\* A press and its retries make one incident, and the stored answer of a press is the
\* incident it made, even while presses of other keys run (idempotent, insertAlert).
OnePressOneIncident ==
  /\ \A a \in Raised : slot[alert[a].press] = a
  /\ \A p \in Presses : slot[p] # None => slot[p] \in Raised /\ alert[slot[p]].press = p

\* What an incident names of a device goes with the device: no incident names a position
\* of a device that was cut off (eraseDeviceLocation against a press under way).
NoErasedPosition == \A a \in Raised : alert[a].fix \notin revoked

\* A device closes an incident only if it is its own child's, and only as a false alarm
\* (createSosAlertResolve, the checks on the locked incident).
DeviceClosesOwnFalseAlarm ==
  \A a \in Raised : alert[a].closer \in Devices =>
    ChildOf[alert[a].closer] = alert[a].child /\ alert[a].reason = "false_alarm"

\* No two live contacts of the ladder share a number, through additions and renumberings
\* at once (insertBackupContact, updateBackupContact).
LivePhonesDistinct ==
  \A c, d \in Live : contact[c].phone = contact[d].phone => c = d

\* A device that was cut off raises no incident on its way out (readReportingDevice holds
\* the device until the incident is stored).
RevokedDeviceRaisesNothing ==
  [][\A a \in Alerts : a \notin Raised /\ a \in Raised' =>
       By[alert'[a].press] \notin revoked]_vars

Rank == [absent |-> 0, active |-> 1, acknowledged |-> 2, escalating |-> 3, resolved |-> 4]

\* What an incident records stands: the first acknowledgement and the one climb of the
\* ladder are kept, it never goes back, and once closed only the reference to an erased
\* position leaves it (acknowledge, escalate, resolve, eraseDeviceLocation).
IncidentHistoryStands ==
  [][\A a \in Raised :
       /\ Rank[alert'[a].status] >= Rank[alert[a].status]
       /\ alert'[a].child = alert[a].child /\ alert'[a].press = alert[a].press
       /\ alert[a].ack # None => alert'[a].ack = alert[a].ack
       /\ alert[a].climber # None =>
            alert'[a].climber = alert[a].climber /\ rung'[a] = rung[a]
       /\ alert[a].status = "resolved" =>
            alert'[a] \in {alert[a], [alert[a] EXCEPT !.fix = None]}]_vars

\* The incidents of the family are an IncidentBook.
Book == INSTANCE IncidentBook WITH
  open <- Open,
  closed <- {a \in Alerts : alert[a].status = "resolved"},
  about <- [a \in Alerts |-> alert[a].child]
KeepsIncidents == Book!Spec

\* No circle of waits: whichever requests one looks at, while one of them is under way one of
\* those waits for none of the others (the order in which slots, devices, incidents and
\* contacts are locked; a refused request lets go of its rows).
NoCircleOfWaits ==
  \A ring \in SUBSET Txns :
    (\E t \in ring : pc[t] # "idle") =>
      \E t \in ring : pc[t] # "idle" /\ WaitsFor(t) \cap ring = {}

\* A second press of a child in emergency is answered, never broken off (the header of
\* sos-emergency.js, rule 1).
PressIsAnswered == "fire" \notin failed

-----------------------------------------------------------------------------
(* The inductive invariant: what a transaction checked of a row it holds   *)
(* stays true until it ends.                                               *)

RowFacts ==
  /\ \A a \in Alerts : \/ a \notin Raised /\ alert[a] = NoAlert /\ rung[a] = {}
                       \/ a \in Raised /\ alert[a].child \in Children
                                       /\ alert[a].press \in Presses
  /\ \A a \in Raised : alert[a].status \in {"active", "acknowledged"} =>
       alert[a].climber = None
  /\ OneOpenIncident
  /\ OnePressOneIncident
  /\ NoErasedPosition
  /\ DeviceClosesOwnFalseAlarm
  /\ LivePhonesDistinct

\* A transaction's request is the one it was sent.
Asks(t) ==
  /\ op[t] = "fire" => item[t] \in Presses /\ by[t] = By[item[t]] /\ via[t] = Via[item[t]]
  /\ op[t] \in {"acknowledge", "escalate", "resolve"} => item[t] \in Raised
  /\ op[t] = "resolve" => /\ arg[t] \in Reasons
                          /\ by[t] \in Devices => via[t] = by[t]
  /\ op[t] = "revoke" => item[t] \in Devices
  /\ op[t] = "addContact" => item[t] = None /\ arg[t] \in Phones
  /\ op[t] = "changeContact" => /\ item[t] \in Contacts
                                /\ arg[t] \in Phones \cup {None}

Holds(t) ==
  /\ op[t] = "fire" /\ pc[t] \in {"lockDevice", "look", "insert", "commit"} =>
       lock[item[t]] = t /\ slot[item[t]] = None
  /\ op[t] = "fire" /\ pc[t] \in {"look", "insert", "commit"} /\ via[t] # None =>
       lock[via[t]] = t /\ Speaks(t)
  /\ At(t, "fire", "commit") =>
       /\ \A a \in Open : alert[a].child # About[item[t]]
       /\ Fix[item[t]] \notin revoked
  /\ At(t, "acknowledge", "commit") =>
       lock[item[t]] = t /\ item[t] \in Open /\ alert[item[t]].ack = None
  /\ op[t] = "escalate" /\ pc[t] \in {"look", "commit"} =>
       lock[item[t]] = t /\ alert[item[t]].status \in {"active", "acknowledged"}
  /\ At(t, "resolve", "commit") =>
       lock[item[t]] = t /\ item[t] \in Open /\ MayClose(t)
  /\ op[t] = "revoke" /\ pc[t] \in {"lockItem", "commit"} => lock[item[t]] = t
  /\ Numbering(t) => \A c \in Live \ {item[t]} : contact[c].phone # arg[t]
  /\ op[t] = "changeContact" /\ pc[t] \in {"insert", "archive", "commit"} =>
       lock[item[t]] = t /\ item[t] \in Live

\* Two presses of one child, or two rows of one number, are not both in the table.
OneAtATime ==
  /\ \A t, u \in Pressing : About[item[t]] = About[item[u]] => t = u
  /\ \A t, u \in Txns : Numbering(t) /\ Numbering(u) /\ arg[t] = arg[u] => t = u

SosInv ==
  /\ TypeOK
  /\ RowFacts
  /\ \A t \in Txns : Asks(t) /\ Holds(t)
  /\ OneAtATime
=============================================================================
