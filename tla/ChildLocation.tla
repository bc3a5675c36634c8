---------------------------- MODULE ChildLocation ----------------------------
(***************************************************************************)
(* What a family stores about where its children are: the pairing of       *)
(* handsets, consents, reported positions and the crossings judged from    *)
(* them, and the operations that make all of it go away - revoking a       *)
(* device, erasing a child's positions, removing a child - as the          *)
(* transactions of location-telemetry.js, child-consents.js,               *)
(* device-revocation.js, data-erasure.js and the device operations of      *)
(* postgres-foundation-store.js run them at READ COMMITTED.                *)
(*                                                                         *)
(* A request that waits once, at its start, is one step.  The others are   *)
(* sequences of steps: reporting a position, revoking, erasing, removing.  *)
(* A DELETE or UPDATE sees the rows committed when it runs and locks them; *)
(* its effect is seen when its transaction commits.  A statement that      *)
(* waits is one that has not run.                                          *)
(***************************************************************************)
EXTENDS Integers, FiniteSets

CONSTANTS Children, Devices,
          ChildOf,  \* the child a device is linked to
          Codes,    \* rows family_device_pairings may get
          Fixes,    \* positions, by the id the handset gave them
          Taker,    \* the device whose handset took a fix; its id is random
          RecordedAt, \* recorded_at of a fix, by the clock of its handset
          Inside,   \* the zones a fix lies in
          Located,  \* the fixes with coordinates
          Ageing,   \* the fixes that grow older than LOCATION_RETENTION_DAYS
          Zones,    \* the safe zones of the family, assigned to every child
          Txns,     \* transactions that run at once
          Kinds,    \* the operations requests ask for
          None

ASSUME DevicesAssumption == ChildOf \in [Devices -> Children]
ASSUME FixesAssumption ==
  /\ Taker \in [Fixes -> Devices]
  /\ RecordedAt \in [Fixes -> Nat]
  /\ \A f, g \in Fixes : RecordedAt[f] = RecordedAt[g] => f = g
  /\ Inside \in [Fixes -> SUBSET Zones]
  /\ Located \subseteq Fixes /\ Ageing \subseteq Fixes
ASSUME RowsAssumption ==
  /\ Devices \cap Fixes = {} /\ Devices \cap Children = {} /\ Fixes \cap Children = {}
  /\ None \notin Children \cup Devices \cup Codes \cup Fixes \cup Txns

Operations == {"ingest", "revoke", "erase", "remove"}
ASSUME KindsAssumption == Kinds \subseteq Operations

VARIABLES
  archived,  \* the children that were removed
  device,    \* device[d]: absent, unclaimed, active or revoked
  snapshot,  \* the devices with a position in their own row
  pairing,   \* pairing[k]: absent, open or claimed, and the child
  consent,   \* the children with an active location consent
  fix,       \* fix[f]: the device that reported it, None when it is not stored
  aged,      \* the fixes recorded longer ago than LOCATION_RETENTION_DAYS
  crossing,  \* family_geofence_events
  answered,  \* the reports whose Idempotency-Key has an answer
  lock,      \* lock[x]: the transaction that holds row x
  op, pc,    \* the operation a transaction is, and its next statement
  by,        \* the device it is about
  own,       \* it speaks by the credential of that device, under the key of the fix
  item,      \* the fix or child it is about
  made,      \* the crossings it inserted
  cut,       \* the crossings it deleted
  emptied    \* the devices whose own position it deleted

rows == <<archived, device, snapshot, pairing, consent, fix, aged, crossing, answered>>
txns == <<lock, op, pc, by, own, item, made, cut, emptied>>
vars == <<rows, txns>>

-----------------------------------------------------------------------------
Rows == Devices \cup Fixes \cup Children
DeviceStates == {"absent", "unclaimed", "active", "revoked"}
Steps == {"idle", "insert", "cross", "fixes", "snapshots", "devices", "commit"}
Crossings == [zone : Zones, fix : Fixes, kind : {"ENTER", "EXIT"}]
NoPairing == [status |-> "absent", child |-> None]

Init ==
  /\ archived = {}
  /\ device = [d \in Devices |-> "absent"]
  /\ snapshot = {}
  /\ pairing = [k \in Codes |-> NoPairing]
  /\ consent = {}
  /\ fix = [f \in Fixes |-> None]
  /\ aged = {}
  /\ crossing = {}
  /\ answered = {}
  /\ lock = [x \in Rows |-> None]
  /\ op = [t \in Txns |-> "none"]
  /\ pc = [t \in Txns |-> "idle"]
  /\ by = [t \in Txns |-> None]
  /\ own = [t \in Txns |-> FALSE]
  /\ item = [t \in Txns |-> None]
  /\ made = [t \in Txns |-> {}]
  /\ cut = [t \in Txns |-> {}]
  /\ emptied = [t \in Txns |-> {}]

Linked == {d \in Devices : device[d] # "absent"}
Stored == {f \in Fixes : fix[f] # None}
FixesOf(c) == {f \in Stored : ChildOf[fix[f]] = c}
CrossingsOf(c) == {x \in crossing : x.fix \in FixesOf(c)}
DevicesOf(c) == {d \in Linked : ChildOf[d] = c}

-----------------------------------------------------------------------------
(* Requests of one step: each waits for at most one row, first.            *)

Unlocked(x) == lock[x] = None

\* createDevicePairing.
CreatePairing ==
  /\ \E k \in Codes, c \in Children \ archived :
       /\ pairing[k] = NoPairing
       /\ pairing' = [pairing EXCEPT ![k] = [status |-> "open", child |-> c]]
  /\ UNCHANGED <<archived, device, snapshot, consent, fix, aged, crossing, answered, txns>>

\* claimDevicePairing: whether the child is still there is not asked.  A pairing past its
\* ten minutes is one that nobody claims.
ClaimPairing ==
  /\ \E k \in Codes, d \in Devices \ Linked :
       /\ pairing[k] = [status |-> "open", child |-> ChildOf[d]]
       /\ pairing' = [pairing EXCEPT ![k].status = "claimed"]
       /\ device' = [device EXCEPT ![d] = "active"]
  /\ UNCHANGED <<archived, snapshot, consent, fix, aged, crossing, answered, txns>>

\* registerFamilyChildDevice: a device without a credential.
RegisterDevice ==
  /\ \E d \in Devices \ Linked :
       /\ ChildOf[d] \notin archived
       /\ device' = [device EXCEPT ![d] = "unclaimed"]
  /\ UNCHANGED <<archived, snapshot, pairing, consent, fix, aged, crossing, answered, txns>>

\* A credential speaks for a device that is not revoked; a primary guardian for any.
MaySpeak(d, credential) == d \in Linked /\ (credential => device[d] = "active")

\* ingestDeviceTelemetry, with a position or without.
ReportTelemetry ==
  /\ \E d \in Devices, credential \in BOOLEAN :
       /\ MaySpeak(d, credential)
       /\ Unlocked(d)
       /\ snapshot' \in {snapshot \cup {d}, snapshot \ {d}}
  /\ UNCHANGED <<archived, device, pairing, consent, fix, aged, crossing, answered, txns>>

\* recordConsent.
RecordConsent ==
  /\ \E d \in Devices, credential \in BOOLEAN :
       /\ MaySpeak(d, credential)
       /\ Unlocked(d)
       /\ ChildOf[d] \notin consent
       /\ consent' = consent \cup {ChildOf[d]}
  /\ UNCHANGED <<archived, device, snapshot, pairing, fix, aged, crossing, answered, txns>>

\* Mutant: the device is not locked.
WithdrawWithoutLock ==
  /\ \E d \in Linked : consent' = consent \ {ChildOf[d]} /\ consent' # consent
  /\ UNCHANGED <<archived, device, snapshot, pairing, fix, aged, crossing, answered, txns>>

\* withdrawConsent, by a guardian.
WithdrawConsent ==
  /\ \E d \in Linked :
       /\ Unlocked(d) /\ Unlocked(ChildOf[d])
       /\ ChildOf[d] \in consent
       /\ consent' = consent \ {ChildOf[d]}
  /\ UNCHANGED <<archived, device, snapshot, pairing, fix, aged, crossing, answered, txns>>

\* Ninety days pass for a fix, the older first.
Age ==
  /\ \E f \in Ageing \ aged :
       /\ \A g \in Ageing \ aged : RecordedAt[f] <= RecordedAt[g]
       /\ aged' = aged \cup {f}
  /\ UNCHANGED <<archived, device, snapshot, pairing, consent, fix, crossing, answered, txns>>

-----------------------------------------------------------------------------
(* Beginning, locking, ending.                                             *)

\* The first statement that waits has its locks: a request that still waits for them
\* holds nothing, and is one that has not begun.
Begin(t, kind, step, d, credential, x, set) ==
  /\ kind \in Kinds
  /\ pc[t] = "idle"
  /\ op' = [op EXCEPT ![t] = kind]
  /\ pc' = [pc EXCEPT ![t] = step]
  /\ by' = [by EXCEPT ![t] = d]
  /\ own' = [own EXCEPT ![t] = credential]
  /\ item' = [item EXCEPT ![t] = x]
  /\ lock' = [y \in Rows |-> IF y \in set THEN t ELSE lock[y]]
  /\ UNCHANGED <<rows, made, emptied>>

At(t, kind, step) == op[t] = kind /\ pc[t] = step

Free(t, x) == lock[x] \in {None, t}

TakeAll(t, set, step) ==
  /\ lock' = [x \in Rows |-> IF x \in set THEN t ELSE lock[x]]
  /\ pc' = [pc EXCEPT ![t] = step]

\* COMMIT and ROLLBACK both let go of every lock.
End(t) ==
  /\ lock' = [x \in Rows |-> IF lock[x] = t THEN None ELSE lock[x]]
  /\ op' = [op EXCEPT ![t] = "none"]
  /\ pc' = [pc EXCEPT ![t] = "idle"]
  /\ by' = [by EXCEPT ![t] = None]
  /\ own' = [own EXCEPT ![t] = FALSE]
  /\ item' = [item EXCEPT ![t] = None]
  /\ made' = [made EXCEPT ![t] = {}]
  /\ cut' = [cut EXCEPT ![t] = {}]
  /\ emptied' = [emptied EXCEPT ![t] = {}]

\* A refusal, a constraint's error or a ROLLBACK: nothing is written.
Refuse(t) == End(t) /\ UNCHANGED rows

-----------------------------------------------------------------------------
(* ingestFix.                                                              *)

\* A report by a credential, or by a primary guardian for any device; the consent is read
\* without a lock.
Report(t, d, f, credential, locked) ==
  /\ MaySpeak(d, credential)
  /\ credential => d = Taker[f]
  /\ ChildOf[d] \in consent
  /\ Begin(t, "ingest", "insert", d, credential, f, locked)
  /\ UNCHANGED cut

\* Mutant: the device is read without its lock.
IngestReadsDevice(t) ==
  \E d \in Devices, f \in Fixes, credential \in BOOLEAN : Report(t, d, f, credential, {})

\* Mutant: the stored answer is not asked for.
IngestWithoutAnswers(t) ==
  \E d \in Devices, f \in Fixes, credential \in BOOLEAN :
    Unlocked(d) /\ Report(t, d, f, credential, {d})

\* A report that was answered is answered again; the device is read under its lock.
BeginIngest(t) ==
  \E d \in Devices, f \in Fixes, credential \in BOOLEAN :
    /\ Unlocked(d)
    /\ ~(credential /\ <<d, f>> \in answered)
    /\ Report(t, d, f, credential, {d})

\* The reports that have their row, uncommitted.
Reporting(f) == {t \in Txns : op[t] = "ingest" /\ pc[t] \in {"cross", "commit"} /\ item[t] = f}

\* Older than the newest fix stored for the child, or without coordinates.
NotJudged(f, c) ==
  \/ f \notin Located
  \/ \E g \in FixesOf(c) : g # f /\ RecordedAt[f] < RecordedAt[g]

Answer(t) ==
  answered' = IF own[t] THEN answered \cup {<<by[t], item[t]>>} ELSE answered

\* INSERT ... ON CONFLICT (id) DO NOTHING waits for a row of that id that is being
\* written or deleted; a fix that is stored already is answered, or belongs to another.
InsertFix(t) ==
  /\ At(t, "ingest", "insert")
  /\ Reporting(item[t]) = {}
  /\ Free(t, item[t])
  /\ \/ /\ fix[item[t]] = None
        /\ pc' = [pc EXCEPT ![t] = IF NotJudged(item[t], ChildOf[by[t]])
                                   THEN "commit" ELSE "cross"]
        /\ UNCHANGED <<rows, lock, op, by, own, item, made, cut, emptied>>
     \/ /\ fix[item[t]] = by[t]
        /\ Answer(t)
        /\ End(t)
        /\ UNCHANGED <<archived, device, snapshot, pairing, consent, fix, aged, crossing>>
     \/ /\ fix[item[t]] \notin {None, by[t]}
        /\ Refuse(t)

\* readLastCrossing.
Last(z, c) ==
  {x \in CrossingsOf(c) : x.zone = z /\ \A y \in CrossingsOf(c) :
                            y.zone = z => RecordedAt[y.fix] <= RecordedAt[x.fix]}

WasInside(z, c) == \E x \in Last(z, c) : x.kind = "ENTER"

\* The zones f tells a crossing of, and the crossing.
CrossingIn(z, f) ==
  [zone |-> z, fix |-> f, kind |-> IF z \in Inside[f] THEN "ENTER" ELSE "EXIT"]

Judged(f, c) ==
  {CrossingIn(z, f) : z \in {z \in Zones : (z \in Inside[f]) # WasInside(z, c)}}

\* Mutant: the last crossing is not asked for.
JudgeFixAlone(t) ==
  /\ At(t, "ingest", "cross")
  /\ made' = [made EXCEPT ![t] = {CrossingIn(z, item[t]) : z \in Zones}]
  /\ pc' = [pc EXCEPT ![t] = "commit"]
  /\ UNCHANGED <<rows, lock, op, by, own, item, cut, emptied>>

JudgeFix(t) ==
  /\ At(t, "ingest", "cross")
  /\ made' = [made EXCEPT ![t] = Judged(item[t], ChildOf[by[t]])]
  /\ pc' = [pc EXCEPT ![t] = "commit"]
  /\ UNCHANGED <<rows, lock, op, by, own, item, cut, emptied>>

\* Mutant: what a crossing was judged from is pruned too.
PrunableAll(t) == (Stored \cup {item[t]}) \cap aged

\* pruneFixes: the fixes of the family that are too old and that no crossing names.  One
\* that an incident names is spared too; incidents are rows of SosEmergency, and here none
\* names a fix.
Prunable(t) ==
  {f \in (Stored \cup {item[t]}) \cap aged : \A x \in crossing \cup made[t] : x.fix # f}

CommitIngest(t) ==
  /\ At(t, "ingest", "commit")
  /\ \A f \in Prunable(t) : Free(t, f)
  /\ fix' = [f \in Fixes |-> IF f \in Prunable(t) THEN None
                             ELSE IF f = item[t] THEN by[t] ELSE fix[f]]
  /\ crossing' = crossing \cup made[t]
  /\ Answer(t)
  /\ End(t)
  /\ UNCHANGED <<archived, device, snapshot, pairing, consent, aged>>

-----------------------------------------------------------------------------
(* revokeFamilyChildDevice.                                                *)

FixesBy(d) == {f \in Stored : fix[f] = d}
CrossingsBy(d) == {x \in crossing : x.fix \in FixesBy(d)}

\* The crossings another transaction has deleted.
CutByOthers(t) == UNION {cut[u] : u \in Txns \ {t}}

\* markRevoked: the guard of the UPDATE is what decides.
BeginRevoke(t) ==
  /\ \E d \in Devices : /\ Unlocked(d)
                        /\ device[d] = "active"
                        /\ Begin(t, "revoke", "commit", d, FALSE, None, {d})
  /\ UNCHANGED cut

\* eraseDeviceLocation, and the columns of the UPDATE that are no position: no report of
\* the device is under way while its row is held.
Revoke(t) ==
  /\ At(t, "revoke", "commit")
  /\ CrossingsBy(by[t]) \cap CutByOthers(t) = {}
  /\ \A f \in FixesBy(by[t]) : Free(t, f)
  /\ device' = [device EXCEPT ![by[t]] = "revoked"]
  /\ crossing' = crossing \ CrossingsBy(by[t])
  /\ fix' = [f \in Fixes |-> IF f \in FixesBy(by[t]) THEN None ELSE fix[f]]
  /\ End(t)
  /\ UNCHANGED <<archived, pairing, consent, aged, answered>>

CommitRevoke(t) == Revoke(t) /\ snapshot' = snapshot \ {by[t]}

-----------------------------------------------------------------------------
(* eraseChildLocationData, and removeFamilyChild, which does more after it. *)

Erasing(t, step) == op[t] \in {"erase", "remove"} /\ pc[t] = step

\* The DELETE FROM family_geofence_events both begin with.
BeginErase(t) ==
  \E c \in Children, kind \in {"erase", "remove"} :
    /\ kind = "remove" => c \notin archived
    /\ CrossingsOf(c) \cap CutByOthers(t) = {}
    /\ Begin(t, kind, "fixes", None, FALSE, c, {})
    /\ cut' = [cut EXCEPT ![t] = CrossingsOf(c)]

\* DELETE FROM family_child_location_fixes: the foreign key of a crossing that was
\* committed since the first DELETE refuses it.  The statement between the two takes the
\* fixes out of the child's incidents, as a revocation does in SosEmergency; an incident
\* that is committed after it refuses the DELETE, which ConnectionLost covers.
CutFixes(t) ==
  /\ Erasing(t, "fixes")
  /\ \A f \in FixesOf(item[t]) : Free(t, f)
  /\ IF CrossingsOf(item[t]) \subseteq cut[t]
     THEN /\ TakeAll(t, FixesOf(item[t]), "snapshots")
          /\ UNCHANGED <<rows, op, by, own, item, made, cut, emptied>>
     ELSE Refuse(t)

\* UPDATE family_child_devices SET location_lat = NULL.
CutSnapshots(t) ==
  /\ Erasing(t, "snapshots")
  /\ \A d \in DevicesOf(item[t]) \cap snapshot : Free(t, d)
  /\ TakeAll(t, DevicesOf(item[t]) \cap snapshot,
             IF op[t] = "remove" THEN "devices" ELSE "commit")
  /\ emptied' = [emptied EXCEPT ![t] = DevicesOf(item[t]) \cap snapshot]
  /\ UNCHANGED <<rows, op, by, own, item, made, cut>>

\* The rows withdrawActiveConsents and revokeChildDevices write.
CutOff(t) ==
  {d \in DevicesOf(item[t]) : device[d] = "active"}
    \cup (IF item[t] \in consent THEN {item[t]} ELSE {})

CutDevices(t) ==
  /\ Erasing(t, "devices")
  /\ \A x \in CutOff(t) : Free(t, x)
  /\ TakeAll(t, CutOff(t), "commit")
  /\ UNCHANGED <<rows, op, by, own, item, made, cut, emptied>>

Held(t) == {x \in Rows : lock[x] = t}

\* What both leave of the positions they deleted.
Erased(t) ==
  /\ crossing' = crossing \ cut[t]
  /\ fix' = [f \in Fixes |-> IF f \in Held(t) THEN None ELSE fix[f]]
  /\ snapshot' = snapshot \ emptied[t]

CommitErase(t) ==
  /\ At(t, "erase", "commit")
  /\ Erased(t)
  /\ End(t)
  /\ UNCHANGED <<archived, device, pairing, consent, aged, answered>>

\* archiveChild: the second of two removals writes nothing.
CommitRemove(t) ==
  /\ At(t, "remove", "commit")
  /\ IF item[t] \in archived
     THEN Refuse(t)
     ELSE /\ archived' = archived \cup {item[t]}
          /\ Erased(t)
          /\ consent' = consent \ Held(t)
          /\ device' = [d \in Devices |-> IF d \in Held(t) /\ device[d] = "active"
                                          THEN "revoked" ELSE device[d]]
          /\ End(t)
          /\ UNCHANGED <<pairing, aged, answered>>

-----------------------------------------------------------------------------
(* The database.                                                           *)

\* The rows the next step of t needs.
Wanted(t) ==
  CASE At(t, "ingest", "insert") -> {item[t]}
    [] At(t, "ingest", "commit") -> Prunable(t)
    [] At(t, "revoke", "commit") -> FixesBy(by[t])
    [] pc[t] = "fixes" -> FixesOf(item[t])
    [] pc[t] = "snapshots" -> DevicesOf(item[t]) \cap snapshot
    [] pc[t] = "devices" -> CutOff(t)
    [] OTHER -> {}

\* The crossings it deletes next.
ToCut(t) == IF At(t, "revoke", "commit") THEN CrossingsBy(by[t]) ELSE {}

\* The transactions t waits for.
WaitsFor(t) ==
  {u \in Txns \ {t} : \/ \E x \in Wanted(t) : lock[x] = u
                      \/ ToCut(t) \cap cut[u] # {}
                      \/ At(t, "ingest", "insert") /\ u \in Reporting(item[t])}

Deadlocked(t) ==
  \E ring \in SUBSET Txns :
    t \in ring /\ \A u \in ring : /\ WaitsFor(u) \cap ring # {}
                                  /\ \E v \in ring : u \in WaitsFor(v)

\* The deadlock detector of PostgreSQL ends one of them.
DeadlockDetected(t) == Deadlocked(t) /\ Refuse(t)

\* The process or its connection ends within a transaction.
ConnectionLost(t) == pc[t] # "idle" /\ Refuse(t)

-----------------------------------------------------------------------------
Step(t) ==
  \/ InsertFix(t)
  \/ JudgeFix(t)
  \/ CommitIngest(t)
  \/ CommitRevoke(t)
  \/ CutFixes(t)
  \/ CutSnapshots(t)
  \/ CutDevices(t)
  \/ CommitErase(t)
  \/ CommitRemove(t)
  \/ DeadlockDetected(t)

Next ==
  \/ CreatePairing
  \/ ClaimPairing
  \/ RegisterDevice
  \/ ReportTelemetry
  \/ RecordConsent
  \/ WithdrawConsent
  \/ Age
  \/ \E t \in Txns : \/ BeginIngest(t) \/ BeginRevoke(t) \/ BeginErase(t)
                     \/ Step(t)
                     \/ ConnectionLost(t)

Spec == Init /\ [][Next]_vars

-----------------------------------------------------------------------------
(* Properties.                                                             *)

TypeOK ==
  /\ archived \subseteq Children
  /\ device \in [Devices -> DeviceStates]
  /\ snapshot \subseteq Devices
  /\ pairing \in [Codes -> [status : {"absent", "open", "claimed"},
                          child : Children \cup {None}]]
  /\ consent \subseteq Children
  /\ fix \in [Fixes -> Devices \cup {None}]
  /\ aged \subseteq Fixes
  /\ crossing \subseteq Crossings
  /\ answered \subseteq Devices \X Fixes
  /\ lock \in [Rows -> Txns \cup {None}]
  /\ op \in [Txns -> Operations \cup {"none"}]
  /\ pc \in [Txns -> Steps]
  /\ by \in [Txns -> Devices \cup {None}]
  /\ own \in [Txns -> BOOLEAN]
  /\ item \in [Txns -> Fixes \cup Children \cup {None}]
  /\ made \in [Txns -> SUBSET Crossings]
  /\ cut \in [Txns -> SUBSET Crossings]
  /\ emptied \in [Txns -> SUBSET Devices]

\* A crossing can be checked: the fix it was judged from is stored, through pruning,
\* revocations, erasures and the reports that run with them (pruneFixes,
\* eraseDeviceLocation, eraseChildLocationData).
CrossingHasFix == \A x \in crossing : x.fix \in Stored

\* The only handset the child has ever had.
Lone(d) == \A e \in Linked : ChildOf[e] = ChildOf[d] => e = d

\* Of a zone, one handset tells by turns that it entered and that it left, whatever arrives
\* late or twice, or while positions are erased (ingestFix judges a fix by the last crossing,
\* and a late one not at all).
CrossingsAlternate ==
  \A d \in Linked : Lone(d) =>
    \A x, y \in CrossingsOf(ChildOf[d]) :
      /\ x.zone = y.zone /\ x.kind = y.kind
      /\ RecordedAt[x.fix] < RecordedAt[y.fix]
      => \E w \in CrossingsOf(ChildOf[d]) :
           /\ w.zone = x.zone /\ w.kind # x.kind
           /\ RecordedAt[x.fix] < RecordedAt[w.fix]
           /\ RecordedAt[w.fix] < RecordedAt[y.fix]

\* A handset that was cut off stores no more positions by its credential, not even the
\* one it was sending.
CutOffHandsetStoresNothing ==
  [][\A f \in Fixes : fix[f] = None /\ fix'[f] # None =>
       \E t \in Txns : /\ At(t, "ingest", "commit") /\ item[t] = f
                       /\ own[t] => device[by[t]] = "active"]_vars

\* A position that was erased does not come back with the retry of the handset that
\* took it: its Idempotency-Key is the one of the fix, and has its answer.
ErasedStaysErased ==
  [][\A f \in Fixes : fix[f] = None /\ fix'[f] # None =>
       \/ <<Taker[f], f>> \notin answered
       \/ \E t \in Txns : At(t, "ingest", "commit") /\ item[t] = f /\ ~own[t]]_vars

\* Nothing of a device is left when its revocation commits.
RevocationErases ==
  [][\A d \in Devices :
       /\ device[d] = "active" /\ device'[d] = "revoked"
       /\ archived' = archived
       => /\ d \notin snapshot'
          /\ \A f \in Fixes : fix'[f] # d]_vars

\* Withdrawn through the handset that reports, consent is not overtaken: a position is
\* stored without it only of a child with another handset, or one that was removed.
StoredByConsent ==
  [][\A f \in Fixes : fix[f] = None /\ fix'[f] # None =>
       \/ ChildOf[fix'[f]] \in consent
       \/ ChildOf[fix'[f]] \in archived
       \/ ~Lone(fix'[f])]_vars

\* The header of data-erasure.js: no handset of a removed child keeps reporting.
RemovedChildIsSilent == \A d \in Devices : ChildOf[d] \in archived => device[d] # "active"

-----------------------------------------------------------------------------
(* The inductive invariant behind CrossingHasFix, CutOffHandsetStoresNothing,
   ErasedStaysErased and RevocationErases. *)

\* What a transaction holds and knows at each statement.
ReportHolds(t) ==
  op[t] = "ingest" =>
    /\ pc[t] \in {"insert", "cross", "commit"}
    /\ by[t] \in Devices /\ item[t] \in Fixes
    /\ lock[by[t]] = t
    /\ own[t] => /\ device[by[t]] = "active"
                 /\ by[t] = Taker[item[t]] /\ <<by[t], item[t]>> \notin answered
    /\ pc[t] # "insert" => fix[item[t]] = None

RevocationHolds(t) ==
  op[t] = "revoke" => /\ pc[t] = "commit"
                      /\ by[t] \in Devices
                      /\ lock[by[t]] = t
                      /\ device[by[t]] = "active"

ErasureHolds(t) ==
  op[t] \in {"erase", "remove"} =>
    /\ pc[t] \in {"fixes", "snapshots", "commit"} \/ At(t, "remove", "devices")
    /\ item[t] \in Children
    /\ pc[t] # "fixes" => \A x \in crossing : lock[x.fix] = t => x \in cut[t]

Holds(t) ==
  /\ ReportHolds(t) /\ RevocationHolds(t) /\ ErasureHolds(t)
  /\ op[t] = "none" <=> pc[t] = "idle"
  /\ \A x \in made[t] : At(t, "ingest", "commit") /\ x.fix = item[t]

\* Only an erasure locks fixes, and only fixes that are stored.
LockedFixIsStored ==
  \A f \in Fixes : lock[f] # None => /\ fix[f] # None
                                    /\ op[lock[f]] \in {"erase", "remove"}
                                    /\ pc[lock[f]] # "fixes"

\* A fix has one report that has not been committed.
OneReport ==
  \A f \in Fixes : \A t, u \in Reporting(f) : t = u

\* Transactions keep what they hold, and crossings their fixes.
LocationInv ==
  /\ TypeOK
  /\ \A t \in Txns : Holds(t)
  /\ LockedFixIsStored
  /\ OneReport
  /\ CrossingHasFix

=============================================================================
