------------------------ MODULE ChildLocationProofs ------------------------
(***************************************************************************)
(* For any number of children, devices, fixes and transactions: a crossing *)
(* keeps the fix it was judged from, and a handset that was cut off stores *)
(* nothing by its credential.  Both follow from LocationInv: a report      *)
(* holds its device, only an erasure holds fixes, and it holds none with a *)
(* crossing that it did not delete.                                        *)
(*                                                                         *)
(* A position is stored by consent (ConsentInv: a report was begun with    *)
(* it), and the only handset of a child tells by turns that it entered and *)
(* left a zone (TellInv: its fixes are judged in their order and erased the *)
(* oldest first).                                                          *)
(***************************************************************************)
EXTENDS ChildLocation, WellFoundedInduction, TLAPS

\* The variables of the transactions, and the rows, each in their domain.
TxnTypes ==
  /\ lock \in [Rows -> Txns \cup {None}]
  /\ op \in [Txns -> Operations \cup {"none"}]
  /\ pc \in [Txns -> Steps]
  /\ by \in [Txns -> Devices \cup {None}]
  /\ own \in [Txns -> BOOLEAN]
  /\ item \in [Txns -> Fixes \cup Children \cup {None}]
  /\ made \in [Txns -> SUBSET Crossings]
  /\ cut \in [Txns -> SUBSET Crossings]
  /\ emptied \in [Txns -> SUBSET Devices]

RowTypes ==
  /\ archived \subseteq Children
  /\ device \in [Devices -> DeviceStates]
  /\ snapshot \subseteq Devices
  /\ pairing \in [Codes -> [status : {"absent", "open", "claimed"},
                          child : Children \cup {None}]]
  /\ consent \subseteq Children
  /\ fix \in [Fixes -> Devices \cup {None}]
  /\ aged \subseteq Fixes
  /\ crossing \subseteq Crossings
  /\ answered \subseteq Devices \X Fixes

AllHold == \A t \in Txns : Holds(t)

LEMMA Parts ==
  LocationInv <=> /\ TxnTypes /\ RowTypes /\ AllHold
                  /\ LockedFixIsStored /\ OneReport /\ CrossingHasFix
<1> QED BY DEF LocationInv, TypeOK, TxnTypes, RowTypes, AllHold

LEMMA NextParts ==
  LocationInv' <=> /\ TxnTypes' /\ RowTypes' /\ AllHold'
                   /\ LockedFixIsStored' /\ OneReport' /\ CrossingHasFix'
<1> QED BY DEF LocationInv, TypeOK, TxnTypes, RowTypes, AllHold

-----------------------------------------------------------------------------
(* What a step leaves alone.                                               *)

\* The variables that belong to transaction u, as the step leaves them.
Untouched(u) ==
  /\ op'[u] = op[u] /\ pc'[u] = pc[u] /\ by'[u] = by[u] /\ own'[u] = own[u]
  /\ item'[u] = item[u] /\ made'[u] = made[u] /\ cut'[u] = cut[u]
  /\ \A x \in Rows : lock'[x] = u <=> lock[x] = u

\* A transaction keeps what it holds through a step of another that leaves its locked
\* devices active and answers nothing for them, leaves its fix unstored, and adds no
\* crossing on a fix it locked.
LEMMA OthersHold ==
  ASSUME TxnTypes, RowTypes', NEW u \in Txns, Holds(u), Untouched(u),
         \A d \in Devices : lock[d] = u /\ device[d] = "active" => device'[d] = "active",
         op[u] = "ingest" /\ pc[u] # "insert" => fix'[item[u]] = fix[item[u]],
         \A x \in crossing' \ crossing : lock[x.fix] # u,
         \A d \in Devices, f \in Fixes :
           <<d, f>> \in answered' /\ lock[d] = u => <<d, f>> \in answered
  PROVE  Holds(u)'
<1>1. ReportHolds(u)'
  BY DEF Holds, ReportHolds, Untouched, Rows
<1>2. RevocationHolds(u)'
  BY DEF Holds, RevocationHolds, Untouched, Rows
<1>3. \A x \in crossing' : x.fix \in Rows
  BY DEF RowTypes, Crossings, Rows
<1>4. ErasureHolds(u)'
  BY <1>3 DEF Holds, ErasureHolds, Untouched, At
<1>5. (op[u] = "none" <=> pc[u] = "idle")'
  BY DEF Holds, Untouched
<1>6. (\A x \in made[u] : At(u, "ingest", "commit") /\ x.fix = item[u])'
  BY DEF Holds, Untouched, At
<1> QED BY <1>1, <1>2, <1>4, <1>5, <1>6 DEF Holds

\* A step that writes no row, and of whose transaction we know what it holds.
LEMMA QuietStep ==
  ASSUME LocationInv, NEW t \in Txns, UNCHANGED rows, TxnTypes',
         \A u \in Txns \ {t} : Untouched(u),
         Holds(t)', LockedFixIsStored', OneReport'
  PROVE  LocationInv'
<1>1. TxnTypes /\ RowTypes /\ AllHold /\ CrossingHasFix
  BY Parts
<1>2. RowTypes'
  BY <1>1 DEF RowTypes, rows
<1>3. CrossingHasFix'
  BY <1>1 DEF CrossingHasFix, Stored, rows
<1>4. ASSUME NEW u \in Txns \ {t} PROVE Holds(u)'
  <2>1. Holds(u) /\ Untouched(u)
    BY <1>1 DEF AllHold
  <2>2. device' = device /\ fix' = fix /\ crossing' = crossing /\ answered' = answered
    BY DEF rows
  <2> QED BY <1>1, <1>2, <2>1, <2>2, OthersHold
<1>5. AllHold'
  BY <1>4 DEF AllHold
<1> QED BY <1>2, <1>3, <1>5, NextParts

\* A step of no transaction.
LEMMA RowStep ==
  ASSUME LocationInv, UNCHANGED <<txns, fix, crossing, answered>>, RowTypes',
         \A d \in Devices : device[d] = "active" => device'[d] = "active"
  PROVE  LocationInv'
<1>1. /\ TxnTypes /\ RowTypes /\ AllHold /\ LockedFixIsStored /\ OneReport
      /\ CrossingHasFix
  BY Parts
<1>2. UNCHANGED <<lock, op, pc, by, own, item, made, cut, emptied>>
  BY DEF txns
<1>3. TxnTypes'
  BY <1>1, <1>2 DEF TxnTypes
<1>4. ASSUME NEW u \in Txns PROVE Holds(u)'
  <2>1. Holds(u) /\ Untouched(u)
    BY <1>1, <1>2 DEF AllHold, Untouched
  <2> QED BY <1>1, <2>1, OthersHold
<1>5. LockedFixIsStored'
  BY <1>1, <1>2 DEF LockedFixIsStored
<1>6. OneReport'
  BY <1>1, <1>2 DEF OneReport, Reporting
<1>7. CrossingHasFix'
  BY <1>1 DEF CrossingHasFix, Stored
<1>8. AllHold'
  BY <1>4 DEF AllHold
<1> QED BY <1>3, <1>5, <1>6, <1>7, <1>8, NextParts

-----------------------------------------------------------------------------
(* The ways a transaction moves.                                           *)

\* Ending lets go of its own locks only, and leaves nothing held.
LEMMA EndStep ==
  ASSUME TxnTypes, NEW t \in Txns, End(t)
  PROVE  /\ TxnTypes'
         /\ \A u \in Txns \ {t} : Untouched(u)
         /\ Holds(t)'
         /\ \A f \in Fixes : Reporting(f)' \subseteq Reporting(f) \ {t}
<1>1. TxnTypes'
  BY DEF TxnTypes, End, Steps
<1>2. op'[t] = "none" /\ pc'[t] = "idle" /\ made'[t] = {}
  BY DEF TxnTypes, End
<1>3. Holds(t)'
  BY <1>2 DEF Holds, ReportHolds, RevocationHolds, ErasureHolds
<1>4. \A u \in Txns \ {t} : Untouched(u)
  BY RowsAssumption DEF TxnTypes, End, Untouched
<1>5. \A f \in Fixes : Reporting(f)' \subseteq Reporting(f) \ {t}
  BY <1>2, <1>4 DEF Reporting, Untouched
<1> QED BY <1>1, <1>3, <1>4, <1>5

\* One report of a fix stays one while reports only end.
LEMMA FewerReports ==
  ASSUME OneReport, \A f \in Fixes : Reporting(f)' \subseteq Reporting(f)
  PROVE  OneReport'
<1> QED BY DEF OneReport

\* A commit that leaves alone what the others hold.
LEMMA CommitStep ==
  ASSUME LocationInv, NEW t \in Txns, End(t), RowTypes', CrossingHasFix',
         \A u \in Txns \ {t}, d \in Devices :
           lock[d] = u /\ device[d] = "active" => device'[d] = "active",
         \A u \in Txns \ {t} :
           op[u] = "ingest" /\ pc[u] # "insert" => fix'[item[u]] = fix[item[u]],
         \A f \in Fixes : lock[f] \in Txns \ {t} => fix'[f] = fix[f],
         \A x \in crossing' \ crossing : lock[x.fix] \notin Txns \ {t},
         answered' = answered \/ (Answer(t) /\ lock[by[t]] = t)
  PROVE  LocationInv'
<1>1. TxnTypes /\ AllHold /\ LockedFixIsStored /\ OneReport
  BY Parts
<1>2. /\ TxnTypes' /\ Holds(t)'
      /\ \A u \in Txns \ {t} : Untouched(u)
      /\ \A f \in Fixes : Reporting(f)' \subseteq Reporting(f) \ {t}
  BY <1>1, EndStep
<1>3. OneReport'
  BY <1>1, <1>2, FewerReports
<1>4. LockedFixIsStored'
  <2> SUFFICES ASSUME NEW f \in Fixes, lock'[f] # None
               PROVE  /\ fix'[f] # None
                      /\ op'[lock'[f]] \in {"erase", "remove"}
                      /\ pc'[lock'[f]] # "fixes"
    BY DEF LockedFixIsStored
  <2>1. lock'[f] = lock[f] /\ lock[f] \in Txns \ {t} /\ lock[f] # None
    BY <1>1, RowsAssumption DEF End, Rows, TxnTypes
  <2>2. fix'[f] # None
    BY <1>1, <2>1 DEF LockedFixIsStored
  <2> QED BY <1>1, <1>2, <2>1, <2>2 DEF LockedFixIsStored, Untouched
<1>5. ASSUME NEW u \in Txns \ {t} PROVE Holds(u)'
  <2>1. Holds(u) /\ Untouched(u)
    BY <1>1, <1>2 DEF AllHold
  <2>2. \A x \in crossing' \ crossing : lock[x.fix] # u
    OBVIOUS
  <2>3. \A d \in Devices, f \in Fixes :
          <<d, f>> \in answered' /\ lock[d] = u => <<d, f>> \in answered
    BY DEF Answer
  <2> QED BY <1>1, <2>1, <2>2, <2>3, OthersHold
<1>6. AllHold'
  BY <1>2, <1>5 DEF AllHold
<1> QED BY <1>2, <1>3, <1>4, <1>6, NextParts

\* Ending without a change of devices, fixes and crossings: a refusal, or an answer.
LEMMA AnswerStep ==
  ASSUME LocationInv, NEW t \in Txns, End(t), RowTypes', UNCHANGED <<device, fix, crossing>>,
         answered' = answered \/ (Answer(t) /\ lock[by[t]] = t)
  PROVE  LocationInv'
<1>1. CrossingHasFix'
  BY Parts DEF CrossingHasFix, Stored
<1> QED BY <1>1, CommitStep

LEMMA RefuseStep ==
  ASSUME LocationInv, NEW t \in Txns, Refuse(t)
  PROVE  LocationInv'
<1>1. RowTypes'
  BY Parts DEF Refuse, rows, RowTypes
<1>2. UNCHANGED <<device, fix, crossing>> /\ answered' = answered
  BY DEF Refuse, rows
<1>3. End(t)
  BY DEF Refuse
<1> QED BY <1>1, <1>2, <1>3, AnswerStep

\* Beginning locks nothing but devices that were free.
LEMMA BeginStep ==
  ASSUME LocationInv, NEW t \in Txns, NEW kind \in Operations, NEW step \in Steps,
         NEW d \in Devices \cup {None}, NEW credential \in BOOLEAN,
         NEW x \in Fixes \cup Children \cup {None}, NEW set \in SUBSET Devices,
         \A e \in set : lock[e] = None,
         Begin(t, kind, step, d, credential, x, set),
         cut' \in [Txns -> SUBSET Crossings],
         \A u \in Txns \ {t} : cut'[u] = cut[u],
         kind = "ingest" => step = "insert",
         Holds(t)'
  PROVE  LocationInv'
<1>1. TxnTypes /\ AllHold /\ LockedFixIsStored /\ OneReport
  BY Parts
<1>2. /\ op[t] = "none" /\ UNCHANGED rows
      /\ UNCHANGED <<made, emptied>>
  BY <1>1 DEF Begin, AllHold, Holds
<1>3. TxnTypes'
  BY <1>1, <1>2 DEF Begin, TxnTypes, Rows
<1>4. ASSUME NEW u \in Txns \ {t} PROVE Untouched(u)
  <2>1. /\ op'[u] = op[u] /\ pc'[u] = pc[u] /\ by'[u] = by[u] /\ own'[u] = own[u]
        /\ item'[u] = item[u] /\ made'[u] = made[u] /\ cut'[u] = cut[u]
    BY <1>1, <1>2 DEF Begin, TxnTypes
  <2>2. \A y \in Rows : lock'[y] = u <=> lock[y] = u
    BY <1>1, RowsAssumption DEF Begin, TxnTypes
  <2> QED BY <2>1, <2>2 DEF Untouched
<1>5. op'[t] = kind /\ pc'[t] = step
  BY <1>1 DEF Begin, TxnTypes
<1>6. \A f \in Fixes : Reporting(f)' \subseteq Reporting(f)
  BY <1>4, <1>5 DEF Reporting, Untouched
<1>7. OneReport'
  BY <1>1, <1>6, FewerReports
<1>8. LockedFixIsStored'
  <2> SUFFICES ASSUME NEW f \in Fixes, lock'[f] # None
               PROVE  /\ fix'[f] # None
                      /\ op'[lock'[f]] \in {"erase", "remove"}
                      /\ pc'[lock'[f]] # "fixes"
    BY DEF LockedFixIsStored
  <2>1. lock'[f] = lock[f] /\ lock[f] \in Txns
    BY <1>1, RowsAssumption DEF Begin, Rows, TxnTypes
  <2>2. /\ fix[f] # None
        /\ op[lock[f]] \in {"erase", "remove"}
        /\ pc[lock[f]] # "fixes"
    BY <2>1 , <1>1 DEF LockedFixIsStored
  <2>3. lock[f] \in Txns \ {t}
    BY <1>2, <2>1, <2>2
  <2>4. fix' = fix
    BY <1>2 DEF rows
  <2> QED BY <1>4, <2>1, <2>2, <2>3, <2>4 DEF Untouched
<1> QED BY <1>2, <1>3, <1>4, <1>7, <1>8, QuietStep

-----------------------------------------------------------------------------
(* Requests of one step.                                                   *)

LEMMA RequestStep ==
  ASSUME LocationInv,
         \/ CreatePairing \/ ClaimPairing \/ RegisterDevice \/ ReportTelemetry
         \/ RecordConsent \/ WithdrawConsent \/ Age
  PROVE  LocationInv'
<1>0. RowTypes
  BY Parts
<1>1. CASE CreatePairing
  <2>1. UNCHANGED <<txns, fix, crossing, answered, device>>
    BY <1>1 DEF CreatePairing
  <2>2. RowTypes'
    BY <1>0, <1>1 DEF CreatePairing, RowTypes
  <2> QED BY <2>1, <2>2, RowStep
<1>2. CASE ClaimPairing
  <2>1. UNCHANGED <<txns, fix, crossing, answered>>
    BY <1>2 DEF ClaimPairing
  <2>2. RowTypes'
    BY <1>0, <1>2 DEF ClaimPairing, RowTypes, DeviceStates
  <2>3. \A d \in Devices : device[d] = "active" => device'[d] = "active"
    BY <1>0, <1>2 DEF ClaimPairing, RowTypes
  <2> QED BY <2>1, <2>2, <2>3, RowStep
<1>3. CASE RegisterDevice
  <2>1. UNCHANGED <<txns, fix, crossing, answered>>
    BY <1>3 DEF RegisterDevice
  <2>2. RowTypes'
    BY <1>0, <1>3 DEF RegisterDevice, RowTypes, DeviceStates
  <2>3. \A d \in Devices : device[d] = "active" => device'[d] = "active"
    BY <1>0, <1>3 DEF RegisterDevice, RowTypes, Linked
  <2> QED BY <2>1, <2>2, <2>3, RowStep
<1>4. CASE ReportTelemetry
  <2>1. UNCHANGED <<txns, fix, crossing, answered, device>>
    BY <1>4 DEF ReportTelemetry
  <2>2. RowTypes'
    BY <1>0, <1>4 DEF ReportTelemetry, RowTypes
  <2> QED BY <2>1, <2>2, RowStep
<1>5. CASE RecordConsent
  <2>1. UNCHANGED <<txns, fix, crossing, answered, device>>
    BY <1>5 DEF RecordConsent
  <2>2. RowTypes'
    BY <1>0, <1>5, DevicesAssumption DEF RecordConsent, RowTypes
  <2> QED BY <2>1, <2>2, RowStep
<1>6. CASE WithdrawConsent
  <2>1. UNCHANGED <<txns, fix, crossing, answered, device>>
    BY <1>6 DEF WithdrawConsent
  <2>2. RowTypes'
    BY <1>0, <1>6 DEF WithdrawConsent, RowTypes
  <2> QED BY <2>1, <2>2, RowStep
<1>7. CASE Age
  <2>1. UNCHANGED <<txns, fix, crossing, answered, device>>
    BY <1>7 DEF Age
  <2>2. RowTypes'
    BY <1>0, <1>7, FixesAssumption DEF Age, RowTypes
  <2> QED BY <2>1, <2>2, RowStep
<1> QED BY <1>1, <1>2, <1>3, <1>4, <1>5, <1>6, <1>7

-----------------------------------------------------------------------------
(* ingestFix.                                                              *)

LEMMA BeginIngestStep ==
  ASSUME LocationInv, NEW t \in Txns, BeginIngest(t)
  PROVE  LocationInv'
<1>1. PICK d \in Devices, f \in Fixes, credential \in BOOLEAN :
        /\ Unlocked(d) /\ ~(credential /\ <<d, f>> \in answered)
        /\ Report(t, d, f, credential, {d})
  BY DEF BeginIngest
<1>2. /\ Begin(t, "ingest", "insert", d, credential, f, {d})
      /\ MaySpeak(d, credential) /\ cut' = cut /\ lock[d] = None
  BY <1>1 DEF Report, Unlocked
<1>3. TxnTypes /\ RowTypes /\ AllHold
  BY Parts
<1>4. /\ op'[t] = "ingest" /\ pc'[t] = "insert" /\ by'[t] = d /\ own'[t] = credential
      /\ item'[t] = f /\ lock'[d] = t /\ made'[t] = made[t] /\ device' = device
      /\ pc[t] = "idle" /\ answered' = answered
  BY <1>2, <1>3 DEF Begin, TxnTypes, Rows, rows
<1>5. made[t] = {}
  BY <1>3, <1>4 DEF AllHold, Holds, At
<1>6. credential => /\ device[d] = "active"
                    /\ d = Taker[f] /\ <<d, f>> \notin answered
  BY <1>1, <1>2 DEF MaySpeak, Report
<1>7. Holds(t)'
  BY <1>4, <1>5, <1>6 DEF Holds, ReportHolds, RevocationHolds, ErasureHolds
<1>8. "ingest" \in Operations /\ "insert" \in Steps /\ {d} \in SUBSET Devices
  BY DEF Operations, Steps
<1>9. cut' \in [Txns -> SUBSET Crossings]
  BY <1>2, <1>3 DEF TxnTypes
<1> QED BY <1>2, <1>7, <1>8, <1>9, BeginStep

\* The row of the fix is there, uncommitted, or the report is answered, or refused.
LEMMA InsertFixStep ==
  ASSUME LocationInv, NEW t \in Txns, InsertFix(t)
  PROVE  LocationInv'
<1>1. /\ TxnTypes /\ RowTypes /\ AllHold /\ LockedFixIsStored /\ OneReport
      /\ CrossingHasFix
  BY Parts
<1>2. /\ At(t, "ingest", "insert") /\ Reporting(item[t]) = {}
      /\ item[t] \in Fixes /\ by[t] \in Devices
  BY <1>1 DEF InsertFix, AllHold, Holds, ReportHolds, At
<1>3. CASE /\ fix[item[t]] = None
           /\ pc' = [pc EXCEPT ![t] = IF NotJudged(item[t], ChildOf[by[t]])
                                      THEN "commit" ELSE "cross"]
           /\ UNCHANGED <<rows, lock, op, by, own, item, made, cut, emptied>>
  <2>1. TxnTypes'
    BY <1>1, <1>3 DEF TxnTypes, Steps
  <2>2. \A u \in Txns \ {t} : Untouched(u)
    BY <1>1, <1>3 DEF TxnTypes, Untouched
  <2>3. pc'[t] \in {"commit", "cross"}
    BY <1>1, <1>3 DEF TxnTypes
  <2>4. op[t] = "ingest" /\ op' = op /\ item' = item
    BY <1>2, <1>3 DEF At
  <2>5. Holds(t)'
    <3>1. UNCHANGED <<lock, by, own, made, fix, device, answered>>
      BY <1>3 DEF rows
    <3>2. made[t] = {}
      BY <1>1, <1>2 DEF AllHold, Holds, At
    <3>3. /\ lock[by[t]] = t
          /\ own[t] => /\ device[by[t]] = "active"
                       /\ by[t] = Taker[item[t]] /\ <<by[t], item[t]>> \notin answered
      BY <1>1, <2>4 DEF AllHold, Holds, ReportHolds
    <3> QED BY <1>2, <1>3, <2>3, <2>4, <3>1, <3>2, <3>3
            DEF Holds, ReportHolds, RevocationHolds, ErasureHolds
  <2>6. LockedFixIsStored'
    <3>1. \A f \in Fixes : lock[f] # t
      BY <1>1, <2>4, RowsAssumption DEF LockedFixIsStored
    <3>2. UNCHANGED <<lock, op, fix>>
      BY <1>3 DEF rows
    <3> SUFFICES ASSUME NEW f \in Fixes, lock[f] # None
                 PROVE  pc'[lock[f]] # "fixes"
      BY <1>1, <3>2 DEF LockedFixIsStored
    <3>3. lock[f] \in Txns \ {t}
      BY <1>1, <3>1 DEF TxnTypes, Rows
    <3> QED BY <1>1, <2>2, <3>3 DEF LockedFixIsStored, Untouched
  <2>7. OneReport'
    <3>1. \A f \in Fixes, u \in Txns \ {t} : u \in Reporting(f)' <=> u \in Reporting(f)
      BY <2>2 DEF Reporting, Untouched
    <3>2. \A f \in Fixes : t \in Reporting(f)' => f = item[t]
      BY <2>4 DEF Reporting
    <3>3. \A f \in Fixes : Reporting(f)' \subseteq Txns
      BY DEF Reporting
    <3>4. \A f \in Fixes : \A u, v \in Reporting(f)' : u = v
      BY <1>1, <1>2, <3>1, <3>2, <3>3 DEF OneReport
    <3> QED BY <3>4 DEF OneReport
  <2>8. UNCHANGED rows
    BY <1>3
  <2> QED BY <2>1, <2>2, <2>5, <2>6, <2>7, <2>8, QuietStep
<1>4. CASE /\ Answer(t)
           /\ End(t)
           /\ UNCHANGED <<archived, device, snapshot, pairing, consent, fix, aged,
                          crossing>>
  <2>1. answered' \subseteq Devices \X Fixes
    BY <1>1, <1>2, <1>4 DEF Answer, RowTypes
  <2>2. RowTypes'
    BY <1>1, <1>4, <2>1 DEF RowTypes
  <2>3. lock[by[t]] = t
    BY <1>1, <1>2 DEF AllHold, Holds, ReportHolds, At
  <2> QED BY <1>4, <2>2, <2>3, AnswerStep
<1>5. CASE Refuse(t)
  BY <1>5, RefuseStep
<1> QED BY <1>3, <1>4, <1>5 DEF InsertFix

LEMMA JudgedTypes ==
  ASSUME NEW f \in Fixes, NEW c
  PROVE  /\ Judged(f, c) \in SUBSET Crossings
         /\ \A x \in Judged(f, c) : x.fix = f
<1> QED BY DEF Judged, CrossingIn, Crossings

LEMMA JudgeFixStep ==
  ASSUME LocationInv, NEW t \in Txns, JudgeFix(t)
  PROVE  LocationInv'
<1>1. TxnTypes /\ RowTypes /\ AllHold /\ LockedFixIsStored /\ OneReport
  BY Parts
<1>2. /\ op[t] = "ingest" /\ pc[t] = "cross" /\ item[t] \in Fixes /\ by[t] \in Devices
      /\ lock[by[t]] = t /\ fix[item[t]] = None
      /\ own[t] => /\ device[by[t]] = "active"
                   /\ by[t] = Taker[item[t]] /\ <<by[t], item[t]>> \notin answered
  BY <1>1 DEF JudgeFix, AllHold, Holds, ReportHolds, At
<1>3. /\ UNCHANGED rows /\ UNCHANGED <<lock, op, by, own, item, cut, emptied>>
      /\ made' = [made EXCEPT ![t] = Judged(item[t], ChildOf[by[t]])]
      /\ pc' = [pc EXCEPT ![t] = "commit"]
  BY DEF JudgeFix
<1>4. TxnTypes'
  BY <1>1, <1>2, <1>3, JudgedTypes DEF TxnTypes, Steps
<1>5. \A u \in Txns \ {t} : Untouched(u)
  BY <1>1, <1>3 DEF TxnTypes, Untouched
<1>6. pc'[t] = "commit" /\ \A x \in made'[t] : x.fix = item[t]
  BY <1>1, <1>2, <1>3, JudgedTypes DEF TxnTypes
<1>7. device' = device /\ fix' = fix /\ answered' = answered
  BY <1>3 DEF rows
<1>8. Holds(t)'
  BY <1>2, <1>3, <1>6, <1>7 DEF Holds, ReportHolds, RevocationHolds, ErasureHolds, At
<1>9. LockedFixIsStored'
  <2> SUFFICES ASSUME NEW f \in Fixes, lock[f] # None
               PROVE  pc'[lock[f]] # "fixes"
    BY <1>1, <1>3, <1>7 DEF LockedFixIsStored
  <2>1. lock[f] \in Txns \ {t}
    BY <1>1, <1>2 DEF TxnTypes, Rows, LockedFixIsStored
  <2> QED BY <1>1, <1>5, <2>1 DEF LockedFixIsStored, Untouched
<1>10. OneReport'
  <2>1. \A f \in Fixes : Reporting(f)' \subseteq Reporting(f)
    BY <1>2, <1>3, <1>5, <1>6 DEF Reporting, Untouched
  <2> QED BY <1>1, <2>1, FewerReports
<1> QED BY <1>3, <1>4, <1>5, <1>8, <1>9, <1>10, QuietStep

\* What is pruned no crossing names, and nobody has locked.
LEMMA CommitIngestStep ==
  ASSUME LocationInv, NEW t \in Txns, CommitIngest(t)
  PROVE  LocationInv'
<1>1. /\ TxnTypes /\ RowTypes /\ AllHold /\ LockedFixIsStored /\ OneReport
      /\ CrossingHasFix
  BY Parts
<1>2. /\ op[t] = "ingest" /\ pc[t] = "commit" /\ item[t] \in Fixes /\ by[t] \in Devices
      /\ fix[item[t]] = None /\ lock[by[t]] = t
      /\ \A x \in made[t] : x.fix = item[t]
  BY <1>1 DEF CommitIngest, AllHold, Holds, ReportHolds, At
<1>3. /\ \A f \in Prunable(t) : lock[f] \in {None, t}
      /\ fix' = [f \in Fixes |-> IF f \in Prunable(t) THEN None
                                 ELSE IF f = item[t] THEN by[t] ELSE fix[f]]
      /\ crossing' = crossing \cup made[t]
      /\ Answer(t) /\ End(t)
      /\ UNCHANGED <<archived, device, snapshot, pairing, consent, aged>>
  BY DEF CommitIngest, Free
<1>4. \A f \in Fixes : lock[f] # t
  BY <1>1, <1>2, RowsAssumption DEF LockedFixIsStored
<1>5. lock[item[t]] = None
  BY <1>1, <1>2 DEF LockedFixIsStored
<1>6. RowTypes'
  <2>1. answered' \subseteq Devices \X Fixes
    BY <1>1, <1>2, <1>3 DEF Answer, RowTypes
  <2>2. crossing' \subseteq Crossings
    BY <1>1, <1>3 DEF TxnTypes, RowTypes
  <2>3. fix' \in [Fixes -> Devices \cup {None}]
    BY <1>1, <1>2, <1>3 DEF RowTypes
  <2> QED BY <1>1, <1>3, <2>1, <2>2, <2>3 DEF RowTypes
<1>7. CrossingHasFix'
  <2> SUFFICES ASSUME NEW x \in crossing' PROVE x.fix \in Fixes /\ fix'[x.fix] # None
    BY DEF CrossingHasFix, Stored
  <2>1. x.fix \in Fixes /\ x.fix \notin Prunable(t)
    BY <1>3, <1>6 DEF Prunable, RowTypes, Crossings
  <2>2. CASE x \in made[t]
    BY <1>2, <1>3, <2>1, <2>2, RowsAssumption
  <2>3. CASE x \in crossing
    <3>1. fix[x.fix] # None
      BY <1>1, <2>3 DEF CrossingHasFix, Stored
    <3> QED BY <1>2, <1>3, <2>1, <3>1
  <2> QED BY <1>3, <2>2, <2>3
<1>8. \A u \in Txns \ {t} :
        op[u] = "ingest" /\ pc[u] # "insert" => fix'[item[u]] = fix[item[u]]
  <2> SUFFICES ASSUME NEW u \in Txns \ {t}, op[u] = "ingest", pc[u] # "insert"
               PROVE  fix'[item[u]] = fix[item[u]]
    OBVIOUS
  <2>1. item[u] \in Fixes /\ fix[item[u]] = None /\ pc[u] \in {"cross", "commit"}
    BY <1>1 DEF AllHold, Holds, ReportHolds
  <2>2. item[u] # item[t]
    BY <1>1, <1>2, <2>1 DEF OneReport, Reporting
  <2> QED BY <1>3, <2>1, <2>2
<1>9. \A f \in Fixes : lock[f] \in Txns \ {t} => fix'[f] = fix[f]
  BY <1>3, <1>5, RowsAssumption
<1>10. \A x \in crossing' \ crossing : lock[x.fix] \notin Txns \ {t}
  BY <1>2, <1>3, <1>5, RowsAssumption
<1>11. answered' = answered \/ (Answer(t) /\ lock[by[t]] = t)
  BY <1>2, <1>3
<1> QED BY <1>3, <1>6, <1>7, <1>8, <1>9, <1>10, <1>11, CommitStep

-----------------------------------------------------------------------------
(* revokeFamilyChildDevice.                                                *)

LEMMA BeginRevokeStep ==
  ASSUME LocationInv, NEW t \in Txns, BeginRevoke(t)
  PROVE  LocationInv'
<1>1. PICK d \in Devices : /\ lock[d] = None
                           /\ device[d] = "active"
                           /\ Begin(t, "revoke", "commit", d, FALSE, None, {d})
  BY DEF BeginRevoke, Unlocked
<1>2. cut' = cut
  BY DEF BeginRevoke
<1>3. TxnTypes /\ AllHold
  BY Parts
<1>4. /\ op'[t] = "revoke" /\ pc'[t] = "commit" /\ by'[t] = d
      /\ lock'[d] = t /\ made'[t] = made[t] /\ device' = device
      /\ pc[t] = "idle"
  BY <1>1, <1>3 DEF Begin, TxnTypes, Rows, rows
<1>5. made[t] = {}
  BY <1>3, <1>4 DEF AllHold, Holds, At
<1>6. Holds(t)'
  BY <1>1, <1>4, <1>5 DEF Holds, ReportHolds, RevocationHolds, ErasureHolds
<1>7. "revoke" \in Operations /\ "commit" \in Steps /\ {d} \in SUBSET Devices
  BY DEF Operations, Steps
<1>8. cut' \in [Txns -> SUBSET Crossings]
  BY <1>2, <1>3 DEF TxnTypes
<1> QED BY <1>1, <1>2, <1>6, <1>7, <1>8, BeginStep

\* The fixes it deletes nobody has locked, and none of them is being reported.
LEMMA CommitRevokeStep ==
  ASSUME LocationInv, NEW t \in Txns, CommitRevoke(t)
  PROVE  LocationInv'
<1>1. /\ TxnTypes /\ RowTypes /\ AllHold /\ LockedFixIsStored /\ OneReport
      /\ CrossingHasFix
  BY Parts
<1>2. /\ op[t] = "revoke" /\ by[t] \in Devices /\ lock[by[t]] = t
  BY <1>1 DEF CommitRevoke, Revoke, AllHold, Holds, RevocationHolds, At
<1>3. /\ \A f \in FixesBy(by[t]) : lock[f] \in {None, t}
      /\ device' = [device EXCEPT ![by[t]] = "revoked"]
      /\ crossing' = crossing \ CrossingsBy(by[t])
      /\ fix' = [f \in Fixes |-> IF f \in FixesBy(by[t]) THEN None ELSE fix[f]]
      /\ snapshot' = snapshot \ {by[t]}
      /\ End(t)
      /\ UNCHANGED <<archived, pairing, consent, aged, answered>>
  BY DEF CommitRevoke, Revoke, Free
<1>4. RowTypes'
  BY <1>1, <1>2, <1>3 DEF RowTypes, DeviceStates
<1>5. CrossingHasFix'
  BY <1>1, <1>3 DEF CrossingHasFix, Stored, CrossingsBy
<1>6. \A u \in Txns \ {t}, d \in Devices :
        lock[d] = u /\ device[d] = "active" => device'[d] = "active"
  BY <1>1, <1>2, <1>3 DEF RowTypes
<1>7. \A u \in Txns \ {t} :
        op[u] = "ingest" /\ pc[u] # "insert" => fix'[item[u]] = fix[item[u]]
  BY <1>1, <1>3 DEF AllHold, Holds, ReportHolds
<1>8. \A f \in Fixes : lock[f] \in Txns \ {t} => fix'[f] = fix[f]
  BY <1>3, RowsAssumption
<1> QED BY <1>3, <1>4, <1>5, <1>6, <1>7, <1>8, CommitStep

-----------------------------------------------------------------------------
(* eraseChildLocationData and removeFamilyChild.                           *)

LEMMA BeginEraseStep ==
  ASSUME LocationInv, NEW t \in Txns, BeginErase(t)
  PROVE  LocationInv'
<1>1. PICK c \in Children, kind \in {"erase", "remove"} :
        /\ Begin(t, kind, "fixes", None, FALSE, c, {})
        /\ cut' = [cut EXCEPT ![t] = CrossingsOf(c)]
  BY DEF BeginErase
<1>2. TxnTypes /\ RowTypes /\ AllHold
  BY Parts
<1>3. /\ op'[t] = kind /\ pc'[t] = "fixes" /\ item'[t] = c
      /\ made'[t] = made[t] /\ pc[t] = "idle"
  BY <1>1, <1>2 DEF Begin, TxnTypes
<1>4. made[t] = {}
  BY <1>2, <1>3 DEF AllHold, Holds, At
<1>5. Holds(t)'
  BY <1>1, <1>3, <1>4 DEF Holds, ReportHolds, RevocationHolds, ErasureHolds
<1>6. kind \in Operations /\ kind # "ingest" /\ "fixes" \in Steps /\ {} \in SUBSET Devices
  BY DEF Operations, Steps
<1>7. cut' \in [Txns -> SUBSET Crossings] /\ \A u \in Txns \ {t} : cut'[u] = cut[u]
  BY <1>1, <1>2 DEF TxnTypes, RowTypes, CrossingsOf
<1> QED BY <1>1, <1>5, <1>6, <1>7, BeginStep

\* An erasure takes rows nobody has, and no fix with a crossing it did not delete.
LEMMA TakeStep ==
  ASSUME LocationInv, NEW t \in Txns, op[t] \in {"erase", "remove"},
         NEW set \in SUBSET Rows, NEW step \in {"snapshots", "devices", "commit"},
         step = "devices" => op[t] = "remove",
         \A x \in set : Free(t, x), TakeAll(t, set, step),
         UNCHANGED <<rows, op, by, own, item, made, cut>>,
         emptied' \in [Txns -> SUBSET Devices],
         \A f \in Fixes \cap set : fix[f] # None,
         \A x \in crossing : x.fix \in set => x \in cut[t]
  PROVE  LocationInv'
<1>1. TxnTypes /\ RowTypes /\ AllHold /\ LockedFixIsStored /\ OneReport
  BY Parts
<1>2. /\ lock' = [x \in Rows |-> IF x \in set THEN t ELSE lock[x]]
      /\ pc' = [pc EXCEPT ![t] = step]
  BY DEF TakeAll
<1>3. TxnTypes'
  BY <1>1, <1>2 DEF TxnTypes, Steps
<1>4. \A u \in Txns \ {t} : Untouched(u)
  BY <1>1, <1>2, RowsAssumption DEF TxnTypes, Untouched, Free
<1>5. pc'[t] = step
  BY <1>1, <1>2 DEF TxnTypes
<1>6. Holds(t)'
  <2>1. item[t] \in Children /\ made[t] = {}
    BY <1>1 DEF AllHold, Holds, ErasureHolds, At
  <2>2. \A x \in crossing : lock[x.fix] = t => x \in cut[t]
    <3> SUFFICES ASSUME NEW x \in crossing, lock[x.fix] = t PROVE x \in cut[t]
      OBVIOUS
    <3>1. x.fix \in Fixes
      BY <1>1 DEF RowTypes, Crossings
    <3>2. pc[t] # "fixes"
      BY <1>1, <3>1, RowsAssumption DEF LockedFixIsStored
    <3> QED BY <1>1, <3>2 DEF AllHold, Holds, ErasureHolds
  <2>3. \A x \in crossing : lock'[x.fix] = t => x \in cut[t]
    <3>1. \A x \in crossing : x.fix \in Rows
      BY <1>1 DEF RowTypes, Crossings, Rows
    <3> QED BY <1>2, <2>2, <3>1
  <2>4. crossing' = crossing
    BY DEF rows
  <2>5. ErasureHolds(t)'
    <3>1. op' = op /\ item' = item /\ cut' = cut
      OBVIOUS
    <3>2. pc'[t] \in {"fixes", "snapshots", "commit"} \/ At(t, "remove", "devices")'
      BY <1>5, <3>1 DEF At
    <3> QED BY <1>5, <2>1, <2>3, <2>4, <3>1, <3>2 DEF ErasureHolds
  <2> QED BY <1>5, <2>1, <2>5 DEF Holds, ReportHolds, RevocationHolds
<1>7. LockedFixIsStored'
  <2> SUFFICES ASSUME NEW f \in Fixes, lock'[f] # None
               PROVE  /\ fix'[f] # None
                      /\ op'[lock'[f]] \in {"erase", "remove"}
                      /\ pc'[lock'[f]] # "fixes"
    BY DEF LockedFixIsStored
  <2>1. f \in Rows /\ fix' = fix
    BY DEF Rows, rows
  <2>2. CASE f \in set
    BY <1>2, <1>5, <2>1, <2>2
  <2>3. CASE f \notin set
    <3>1. lock'[f] = lock[f] /\ lock[f] \in Txns
      BY <1>1, <1>2, <2>1, <2>3 DEF TxnTypes
    <3>2. /\ fix[f] # None /\ op[lock[f]] \in {"erase", "remove"} /\ pc[lock[f]] # "fixes"
      BY <1>1, <3>1 DEF LockedFixIsStored
    <3>3. pc'[lock[f]] # "fixes"
      BY <1>4, <1>5, <3>1, <3>2 DEF Untouched
    <3> QED BY <2>1, <3>1, <3>2, <3>3
  <2> QED BY <2>2, <2>3
<1>8. \A f \in Fixes : Reporting(f)' \subseteq Reporting(f)
  BY <1>4 DEF Reporting, Untouched
<1>9. OneReport'
  BY <1>1, <1>8, FewerReports
<1> QED BY <1>3, <1>4, <1>6, <1>7, <1>9, QuietStep

LEMMA CutFixesStep ==
  ASSUME LocationInv, NEW t \in Txns, CutFixes(t)
  PROVE  LocationInv'
<1>1. TxnTypes /\ RowTypes
  BY Parts
<1>2. op[t] \in {"erase", "remove"} /\ \A f \in FixesOf(item[t]) : Free(t, f)
  BY DEF CutFixes, Erasing
<1>3. CASE /\ CrossingsOf(item[t]) \subseteq cut[t]
           /\ TakeAll(t, FixesOf(item[t]), "snapshots")
           /\ UNCHANGED <<rows, op, by, own, item, made, cut, emptied>>
  <2>1. FixesOf(item[t]) \in SUBSET Rows /\ \A f \in FixesOf(item[t]) : fix[f] # None
    BY DEF FixesOf, Stored, Rows
  <2>2. \A x \in crossing : x.fix \in FixesOf(item[t]) => x \in cut[t]
    BY <1>3 DEF CrossingsOf
  <2>3. emptied' \in [Txns -> SUBSET Devices]
    BY <1>1, <1>3 DEF TxnTypes
  <2> QED BY <1>2, <1>3, <2>1, <2>2, <2>3, TakeStep
<1>4. CASE Refuse(t)
  BY <1>4, RefuseStep
<1> QED BY <1>3, <1>4 DEF CutFixes

\* Rows of devices and children are no fixes.
LEMMA CutSnapshotsStep ==
  ASSUME LocationInv, NEW t \in Txns, CutSnapshots(t)
  PROVE  LocationInv'
<1> DEFINE set == DevicesOf(item[t]) \cap snapshot
           step == IF op[t] = "remove" THEN "devices" ELSE "commit"
<1>1. TxnTypes /\ RowTypes
  BY Parts
<1>2. /\ op[t] \in {"erase", "remove"} /\ \A d \in set : Free(t, d)
      /\ TakeAll(t, set, step)
      /\ emptied' = [emptied EXCEPT ![t] = set]
      /\ UNCHANGED <<rows, op, by, own, item, made, cut>>
  BY DEF CutSnapshots, Erasing
<1>3. set \in SUBSET Devices
  BY DEF DevicesOf, Linked
<1>4. emptied' \in [Txns -> SUBSET Devices]
  BY <1>1, <1>2, <1>3 DEF TxnTypes
<1>5. set \in SUBSET Rows /\ Fixes \cap set = {}
  BY <1>3, RowsAssumption DEF Rows
<1>6. \A x \in crossing : x.fix \notin set
  BY <1>1, <1>5 DEF RowTypes, Crossings
<1>7. step \in {"snapshots", "devices", "commit"} /\ (step = "devices" => op[t] = "remove")
  OBVIOUS
<1> HIDE DEF set, step
<1> QED BY <1>2, <1>4, <1>5, <1>6, <1>7, TakeStep

LEMMA CutDevicesStep ==
  ASSUME LocationInv, NEW t \in Txns, CutDevices(t)
  PROVE  LocationInv'
<1>1. TxnTypes /\ RowTypes /\ AllHold
  BY Parts
<1>2. /\ op[t] \in {"erase", "remove"} /\ \A x \in CutOff(t) : Free(t, x)
      /\ TakeAll(t, CutOff(t), "commit")
      /\ UNCHANGED <<rows, op, by, own, item, made, cut, emptied>>
  BY DEF CutDevices, Erasing
<1>3. CutOff(t) \in SUBSET (Devices \cup Children)
  BY <1>1 DEF CutOff, DevicesOf, Linked, RowTypes
<1>4. CutOff(t) \in SUBSET Rows /\ Fixes \cap CutOff(t) = {}
  BY <1>3, RowsAssumption DEF Rows
<1>5. \A x \in crossing : x.fix \notin CutOff(t)
  BY <1>1, <1>4 DEF RowTypes, Crossings
<1>6. emptied' \in [Txns -> SUBSET Devices]
  BY <1>1, <1>2 DEF TxnTypes
<1> QED BY <1>2, <1>4, <1>5, <1>6, TakeStep

\* What an erasure leaves: the fixes it locked are gone and so are their crossings.
LEMMA ErasedStep ==
  ASSUME LocationInv, NEW t \in Txns, op[t] \in {"erase", "remove"}, pc[t] = "commit",
         Erased(t), End(t), RowTypes', answered' = answered,
         \A d \in Devices : lock[d] # t => device'[d] = device[d]
  PROVE  LocationInv'
<1>1. TxnTypes /\ RowTypes /\ AllHold /\ LockedFixIsStored /\ CrossingHasFix
  BY Parts
<1>2. /\ crossing' = crossing \ cut[t]
      /\ fix' = [f \in Fixes |-> IF lock[f] = t THEN None ELSE fix[f]]
  BY DEF Erased, Held, Rows
<1>3. \A x \in crossing : lock[x.fix] = t => x \in cut[t]
  BY <1>1 DEF AllHold, Holds, ErasureHolds
<1>4. CrossingHasFix'
  BY <1>1, <1>2, <1>3 DEF CrossingHasFix, Stored
<1>5. \A u \in Txns \ {t} :
        op[u] = "ingest" /\ pc[u] # "insert" => fix'[item[u]] = fix[item[u]]
  BY <1>1, <1>2 DEF AllHold, Holds, ReportHolds
<1>6. \A u \in Txns \ {t}, d \in Devices :
        lock[d] = u /\ device[d] = "active" => device'[d] = "active"
  OBVIOUS
<1>7. \A f \in Fixes : lock[f] \in Txns \ {t} => fix'[f] = fix[f]
  BY <1>2
<1>8. \A x \in crossing' \ crossing : lock[x.fix] \notin Txns \ {t}
  BY <1>2
<1> QED BY <1>4, <1>5, <1>6, <1>7, <1>8, CommitStep

LEMMA ErasedTypes ==
  ASSUME RowTypes, NEW t \in Txns, Erased(t)
  PROVE  /\ crossing' \subseteq Crossings
         /\ fix' \in [Fixes -> Devices \cup {None}]
         /\ snapshot' \subseteq Devices
<1> QED BY DEF Erased, RowTypes

LEMMA CommitEraseStep ==
  ASSUME LocationInv, NEW t \in Txns, CommitErase(t)
  PROVE  LocationInv'
<1>1. RowTypes
  BY Parts
<1>2. /\ op[t] = "erase" /\ pc[t] = "commit" /\ Erased(t) /\ End(t)
      /\ UNCHANGED <<archived, device, pairing, consent, aged, answered>>
  BY DEF CommitErase, At
<1>3. RowTypes'
  BY <1>1, <1>2, ErasedTypes DEF RowTypes
<1> QED BY <1>2, <1>3, ErasedStep

LEMMA CommitRemoveStep ==
  ASSUME LocationInv, NEW t \in Txns, CommitRemove(t)
  PROVE  LocationInv'
<1>1. TxnTypes /\ RowTypes /\ AllHold
  BY Parts
<1>2. op[t] = "remove" /\ pc[t] = "commit" /\ item[t] \in Children
  BY <1>1 DEF CommitRemove, At, AllHold, Holds, ErasureHolds
<1>3. CASE Refuse(t)
  BY <1>3, RefuseStep
<1>4. CASE /\ archived' = archived \cup {item[t]}
           /\ Erased(t)
           /\ consent' = consent \ Held(t)
           /\ device' = [d \in Devices |-> IF d \in Held(t) /\ device[d] = "active"
                                           THEN "revoked" ELSE device[d]]
           /\ End(t)
           /\ UNCHANGED <<pairing, aged, answered>>
  <2>1. device' \in [Devices -> DeviceStates]
    BY <1>1, <1>4 DEF RowTypes, DeviceStates
  <2>2. RowTypes'
    BY <1>1, <1>2, <1>4, <2>1, ErasedTypes DEF RowTypes
  <2>3. \A d \in Devices : lock[d] # t => device'[d] = device[d]
    BY <1>4 DEF Held
  <2> QED BY <1>2, <1>4, <2>2, <2>3, ErasedStep
<1> QED BY <1>3, <1>4 DEF CommitRemove

-----------------------------------------------------------------------------
(* The theorems.                                                           *)

LEMMA InitHolds == Init => LocationInv
<1> SUFFICES ASSUME Init PROVE LocationInv
  OBVIOUS
<1>1. TypeOK
  BY RowsAssumption DEF Init, TypeOK, DeviceStates, NoPairing, Operations, Steps
<1>2. \A t \in Txns : Holds(t)
  BY DEF Init, Holds, ReportHolds, RevocationHolds, ErasureHolds
<1>3. LockedFixIsStored /\ OneReport /\ CrossingHasFix
  BY DEF Init, LockedFixIsStored, OneReport, Reporting, CrossingHasFix, Rows
<1> QED BY <1>1, <1>2, <1>3 DEF LocationInv

LEMMA StepKeeps ==
  ASSUME LocationInv, NEW t \in Txns, Step(t)
  PROVE  LocationInv'
<1>1. CASE InsertFix(t)
  BY <1>1, InsertFixStep
<1>2. CASE JudgeFix(t)
  BY <1>2, JudgeFixStep
<1>3. CASE CommitIngest(t)
  BY <1>3, CommitIngestStep
<1>4. CASE CommitRevoke(t)
  BY <1>4, CommitRevokeStep
<1>5. CASE CutFixes(t)
  BY <1>5, CutFixesStep
<1>6. CASE CutSnapshots(t)
  BY <1>6, CutSnapshotsStep
<1>7. CASE CutDevices(t)
  BY <1>7, CutDevicesStep
<1>8. CASE CommitErase(t)
  BY <1>8, CommitEraseStep
<1>9. CASE CommitRemove(t)
  BY <1>9, CommitRemoveStep
<1>10. CASE DeadlockDetected(t)
  BY <1>10, RefuseStep DEF DeadlockDetected
<1> QED BY <1>1, <1>2, <1>3, <1>4, <1>5, <1>6, <1>7, <1>8, <1>9, <1>10 DEF Step

LEMMA StutterKeeps ==
  ASSUME LocationInv, UNCHANGED vars
  PROVE  LocationInv'
<1>1. UNCHANGED <<txns, fix, crossing, answered, device>>
  BY DEF vars, rows
<1>2. RowTypes'
  BY Parts DEF RowTypes, vars, rows
<1> QED BY <1>1, <1>2, RowStep

\* Transactions keep what they hold, crossings their fixes, at every step.
THEOREM LocationInvariant == Spec => []LocationInv
<1>1. ASSUME LocationInv, [Next]_vars PROVE LocationInv'
  <2>1. CASE UNCHANGED vars
    BY <1>1, <2>1, StutterKeeps
  <2>2. CASE \/ CreatePairing \/ ClaimPairing \/ RegisterDevice \/ ReportTelemetry
             \/ RecordConsent \/ WithdrawConsent \/ Age
    BY <1>1, <2>2, RequestStep
  <2>3. ASSUME NEW t \in Txns, BeginIngest(t) PROVE LocationInv'
    BY <1>1, <2>3, BeginIngestStep
  <2>4. ASSUME NEW t \in Txns, BeginRevoke(t) PROVE LocationInv'
    BY <1>1, <2>4, BeginRevokeStep
  <2>5. ASSUME NEW t \in Txns, BeginErase(t) PROVE LocationInv'
    BY <1>1, <2>5, BeginEraseStep
  <2>6. ASSUME NEW t \in Txns, Step(t) PROVE LocationInv'
    BY <1>1, <2>6, StepKeeps
  <2>7. ASSUME NEW t \in Txns, ConnectionLost(t) PROVE LocationInv'
    BY <1>1, <2>7, RefuseStep DEF ConnectionLost
  <2> QED BY <1>1, <2>1, <2>2, <2>3, <2>4, <2>5, <2>6, <2>7 DEF Next
<1> QED BY <1>1, InitHolds, PTL DEF Spec

\* Every variable keeps to its domain.
THEOREM TypeCorrect == Spec => []TypeOK
<1>1. LocationInv => TypeOK
  BY DEF LocationInv
<1> QED BY <1>1, LocationInvariant, PTL

\* The fix a crossing was judged from stays stored as long as the crossing does.
THEOREM CrossingsKeepFixes == Spec => []CrossingHasFix
<1>1. LocationInv => CrossingHasFix
  BY DEF LocationInv
<1> QED BY <1>1, LocationInvariant, PTL

\* A fix is stored by the commit of its report and by nothing else.
LEMMA OnlyReportsStore ==
  ASSUME LocationInv, [Next]_vars, NEW f \in Fixes, fix[f] = None, fix'[f] # None
  PROVE  \E t \in Txns : CommitIngest(t) /\ item[t] = f
<1>1. fix' # fix
  OBVIOUS
<1>2. ASSUME NEW t \in Txns, Refuse(t) PROVE FALSE
  BY <1>1, <1>2 DEF Refuse, rows
<1>3. ASSUME NEW t \in Txns, Step(t) PROVE CommitIngest(t) /\ item[t] = f
  <2>1. CASE InsertFix(t)
    BY <1>1, <1>2, <2>1 DEF InsertFix, rows
  <2>2. CASE JudgeFix(t) \/ CutFixes(t) \/ CutSnapshots(t) \/ CutDevices(t)
    BY <1>1, <1>2, <2>2 DEF JudgeFix, CutFixes, CutSnapshots, CutDevices, rows
  <2>3. CASE CommitIngest(t)
    BY <2>3 DEF CommitIngest
  <2>4. CASE CommitRevoke(t)
    BY <2>4 DEF CommitRevoke, Revoke
  <2>5. CASE CommitErase(t) \/ CommitRemove(t)
    BY <1>2, <2>5 DEF CommitErase, CommitRemove, Erased
  <2>6. CASE DeadlockDetected(t)
    BY <1>2, <2>6 DEF DeadlockDetected
  <2> QED BY <1>3, <2>1, <2>2, <2>3, <2>4, <2>5, <2>6 DEF Step
<1>4. ASSUME NEW t \in Txns, BeginIngest(t) \/ BeginRevoke(t) \/ BeginErase(t) PROVE FALSE
  BY <1>1, <1>4 DEF BeginIngest, BeginRevoke, BeginErase, Report, Begin, rows
<1>5. CASE \/ CreatePairing \/ ClaimPairing \/ RegisterDevice \/ ReportTelemetry
           \/ RecordConsent \/ WithdrawConsent \/ Age
  BY <1>1, <1>5 DEF CreatePairing, ClaimPairing, RegisterDevice, ReportTelemetry,
     RecordConsent, WithdrawConsent, Age
<1>6. ASSUME NEW t \in Txns, ConnectionLost(t) PROVE FALSE
  BY <1>2, <1>6 DEF ConnectionLost
<1>7. CASE UNCHANGED vars
  BY <1>1, <1>7 DEF vars, rows
<1> QED BY <1>3, <1>4, <1>5, <1>6, <1>7 DEF Next

\* A report that commits holds its device, which was active when it was read.
THEOREM CutOffStoresNothing == Spec => CutOffHandsetStoresNothing
<1>1. ASSUME LocationInv, [Next]_vars
      PROVE  \A f \in Fixes : fix[f] = None /\ fix'[f] # None =>
               \E t \in Txns : /\ At(t, "ingest", "commit") /\ item[t] = f
                               /\ own[t] => device[by[t]] = "active"
  <2> SUFFICES ASSUME NEW f \in Fixes, fix[f] = None, fix'[f] # None
               PROVE  \E t \in Txns : /\ At(t, "ingest", "commit") /\ item[t] = f
                                      /\ own[t] => device[by[t]] = "active"
    OBVIOUS
  <2>1. PICK t \in Txns : CommitIngest(t) /\ item[t] = f
    BY <1>1, OnlyReportsStore
  <2>2. At(t, "ingest", "commit")
    BY <2>1 DEF CommitIngest
  <2>3. own[t] => device[by[t]] = "active"
    BY <1>1, <2>2, Parts DEF AllHold, Holds, ReportHolds, At
  <2> QED BY <2>1, <2>2, <2>3
<1> QED BY <1>1, LocationInvariant, PTL DEF Spec, CutOffHandsetStoresNothing

\* While a report holds its device nobody else answers for it: what was not answered when
\* it began is not answered when it commits.
THEOREM RetriesRestoreNothing == Spec => ErasedStaysErased
<1>1. ASSUME LocationInv, [Next]_vars
      PROVE  \A f \in Fixes : fix[f] = None /\ fix'[f] # None =>
               \/ <<Taker[f], f>> \notin answered
               \/ \E t \in Txns : At(t, "ingest", "commit") /\ item[t] = f /\ ~own[t]
  <2> SUFFICES ASSUME NEW f \in Fixes, fix[f] = None, fix'[f] # None
               PROVE  \/ <<Taker[f], f>> \notin answered
                      \/ \E t \in Txns : At(t, "ingest", "commit") /\ item[t] = f /\ ~own[t]
    OBVIOUS
  <2>1. PICK t \in Txns : CommitIngest(t) /\ item[t] = f
    BY <1>1, OnlyReportsStore
  <2>2. At(t, "ingest", "commit")
    BY <2>1 DEF CommitIngest
  <2>3. own[t] => by[t] = Taker[f] /\ <<by[t], f>> \notin answered
    BY <1>1, <2>1, <2>2, Parts DEF AllHold, Holds, ReportHolds, At
  <2> QED BY <2>1, <2>2, <2>3
<1> QED BY <1>1, LocationInvariant, PTL DEF Spec, ErasedStaysErased

\* A device is revoked by its revocation, or with the removal of its child.
LEMMA RevokedBy ==
  ASSUME LocationInv, [Next]_vars, archived' = archived,
         NEW d \in Devices, device[d] = "active", device'[d] = "revoked"
  PROVE  \E t \in Txns : CommitRevoke(t) /\ by[t] = d
<1>0. device' # device /\ device \in [Devices -> DeviceStates]
  BY Parts DEF RowTypes
<1>1. ASSUME NEW t \in Txns, Refuse(t) PROVE FALSE
  BY <1>0, <1>1 DEF Refuse, rows
<1>2. ASSUME NEW t \in Txns, Step(t) PROVE CommitRevoke(t) /\ by[t] = d
  <2>1. CASE InsertFix(t)
    BY <1>0, <1>1, <2>1 DEF InsertFix, rows
  <2>2. CASE JudgeFix(t) \/ CutFixes(t) \/ CutSnapshots(t) \/ CutDevices(t)
    BY <1>0, <1>1, <2>2 DEF JudgeFix, CutFixes, CutSnapshots, CutDevices, rows
  <2>3. CASE CommitIngest(t) \/ CommitErase(t)
    BY <1>0, <2>3 DEF CommitIngest, CommitErase
  <2>4. CASE CommitRevoke(t)
    BY <1>0, <2>4 DEF CommitRevoke, Revoke
  <2>5. CASE CommitRemove(t)
    BY <1>1, <2>5 DEF CommitRemove
  <2>6. CASE DeadlockDetected(t)
    BY <1>1, <2>6 DEF DeadlockDetected
  <2> QED BY <1>2, <2>1, <2>2, <2>3, <2>4, <2>5, <2>6 DEF Step
<1>3. ASSUME NEW t \in Txns, BeginIngest(t) \/ BeginRevoke(t) \/ BeginErase(t) PROVE FALSE
  BY <1>0, <1>3 DEF BeginIngest, BeginRevoke, BeginErase, Report, Begin, rows
<1>4. CASE \/ CreatePairing \/ ClaimPairing \/ RegisterDevice \/ ReportTelemetry
           \/ RecordConsent \/ WithdrawConsent \/ Age
  BY <1>0, <1>4 DEF CreatePairing, ClaimPairing, RegisterDevice, ReportTelemetry,
     RecordConsent, WithdrawConsent, Age, Linked
<1>5. ASSUME NEW t \in Txns, ConnectionLost(t) PROVE FALSE
  BY <1>1, <1>5 DEF ConnectionLost
<1>6. CASE UNCHANGED vars
  BY <1>0, <1>6 DEF vars, rows
<1> QED BY <1>2, <1>3, <1>4, <1>5, <1>6 DEF Next

\* A revocation holds the device, so that no report of it is under way, and deletes what
\* the device has stored: the fix it saw is the fix there is.
THEOREM RevocationIsComplete == Spec => RevocationErases
<1>1. ASSUME LocationInv, [Next]_vars
      PROVE  \A d \in Devices :
               /\ device[d] = "active" /\ device'[d] = "revoked"
               /\ archived' = archived
               => /\ d \notin snapshot'
                  /\ \A f \in Fixes : fix'[f] # d
  <2> SUFFICES ASSUME NEW d \in Devices, archived' = archived,
                      device[d] = "active", device'[d] = "revoked"
               PROVE  d \notin snapshot' /\ \A f \in Fixes : fix'[f] # d
    OBVIOUS
  <2>1. PICK t \in Txns : CommitRevoke(t) /\ by[t] = d
    BY <1>1, RevokedBy
  <2>2. d \notin snapshot'
    BY <2>1 DEF CommitRevoke
  <2>3. \A f \in Fixes : fix'[f] = IF f \in FixesBy(d) THEN None ELSE fix[f]
    BY <2>1 DEF CommitRevoke, Revoke
  <2>4. \A f \in Fixes : fix'[f] # d
    BY <2>3, RowsAssumption DEF FixesBy, Stored
  <2> QED BY <2>2, <2>4
<1> QED BY <1>1, LocationInvariant, PTL DEF Spec, RevocationErases

-----------------------------------------------------------------------------
(* Consent.                                                                *)

\* A row of a child is locked by its removal only; a report was begun with consent, which
\* since then was withdrawn through another device only, or with the removal.
ChildLocked ==
  \A c \in Children : lock[c] # None => op[lock[c]] = "remove" /\ item[lock[c]] = c

BegunByConsent(t) ==
  op[t] = "ingest" =>
    /\ by[t] \in Linked
    /\ \/ ChildOf[by[t]] \in consent
       \/ ChildOf[by[t]] \in archived
       \/ ~Lone(by[t])

ConsentInv == ChildLocked /\ \A t \in Txns : BegunByConsent(t)

\* No step unlinks a device or brings a removed child back.
LEMMA LinkedStay ==
  ASSUME LocationInv, [Next]_vars
  PROVE  Linked \subseteq Linked' /\ archived \subseteq archived'
<1>0. RowTypes
  BY Parts
<1>1. SUFFICES /\ \A d \in Devices : device[d] # "absent" => device'[d] # "absent"
               /\ archived \subseteq archived'
  BY DEF Linked
<1>2. ASSUME NEW t \in Txns, Refuse(t) PROVE UNCHANGED <<device, archived>>
  BY <1>2 DEF Refuse, rows
<1>3. ASSUME NEW t \in Txns, Step(t)
      PROVE  /\ \A d \in Devices : device[d] # "absent" => device'[d] # "absent"
             /\ archived \subseteq archived'
  <2>1. CASE InsertFix(t)
    BY <1>2, <2>1 DEF InsertFix, rows
  <2>2. CASE JudgeFix(t) \/ CutFixes(t) \/ CutSnapshots(t) \/ CutDevices(t)
    BY <1>2, <2>2 DEF JudgeFix, CutFixes, CutSnapshots, CutDevices, rows
  <2>3. CASE CommitIngest(t) \/ CommitErase(t)
    BY <2>3 DEF CommitIngest, CommitErase
  <2>4. CASE CommitRevoke(t)
    BY <1>0, <2>4 DEF CommitRevoke, Revoke, RowTypes
  <2>5. CASE CommitRemove(t)
    BY <1>2, <2>5 DEF CommitRemove
  <2>6. CASE DeadlockDetected(t)
    BY <1>2, <2>6 DEF DeadlockDetected
  <2> QED BY <1>3, <2>1, <2>2, <2>3, <2>4, <2>5, <2>6 DEF Step
<1>4. ASSUME NEW t \in Txns, BeginIngest(t) \/ BeginRevoke(t) \/ BeginErase(t)
      PROVE  UNCHANGED <<device, archived>>
  BY <1>4 DEF BeginIngest, BeginRevoke, BeginErase, Report, Begin, rows
<1>5. CASE CreatePairing \/ ReportTelemetry \/ RecordConsent \/ WithdrawConsent \/ Age
  BY <1>5 DEF CreatePairing, ReportTelemetry, RecordConsent, WithdrawConsent, Age
<1>6. CASE ClaimPairing \/ RegisterDevice
  BY <1>0, <1>6 DEF ClaimPairing, RegisterDevice, RowTypes
<1>7. ASSUME NEW t \in Txns, ConnectionLost(t) PROVE UNCHANGED <<device, archived>>
  BY <1>2, <1>7 DEF ConnectionLost
<1>8. CASE UNCHANGED vars
  BY <1>8 DEF vars, rows
<1> QED BY <1>3, <1>4, <1>5, <1>6, <1>7, <1>8 DEF Next

\* A report that is under way was, or has just begun with the consent of the child.
LEMMA ReportsBefore ==
  ASSUME LocationInv, [Next]_vars, NEW u \in Txns, op'[u] = "ingest"
  PROVE  \/ op[u] = "ingest" /\ by'[u] = by[u]
         \/ by'[u] \in Linked /\ ChildOf[by'[u]] \in consent /\ UNCHANGED rows
<1>0. TxnTypes
  BY Parts
<1>1. ASSUME NEW t \in Txns, End(t) PROVE op[u] = "ingest" /\ by'[u] = by[u]
  BY <1>0, <1>1 DEF End, TxnTypes
<1>2. ASSUME NEW t \in Txns, Step(t) PROVE op[u] = "ingest" /\ by'[u] = by[u]
  <2>1. CASE InsertFix(t)
    BY <1>1, <2>1 DEF InsertFix, Refuse
  <2>2. CASE JudgeFix(t) \/ CutFixes(t) \/ CutSnapshots(t) \/ CutDevices(t)
    BY <1>1, <2>2 DEF JudgeFix, CutFixes, CutSnapshots, CutDevices, Refuse
  <2>3. CASE CommitIngest(t) \/ CommitErase(t)
    BY <1>1, <2>3 DEF CommitIngest, CommitErase
  <2>4. CASE CommitRevoke(t)
    BY <1>1, <2>4 DEF CommitRevoke, Revoke
  <2>5. CASE CommitRemove(t)
    BY <1>1, <2>5 DEF CommitRemove, Refuse
  <2>6. CASE DeadlockDetected(t)
    BY <1>1, <2>6 DEF DeadlockDetected, Refuse
  <2> QED BY <1>2, <2>1, <2>2, <2>3, <2>4, <2>5, <2>6 DEF Step
<1>3. ASSUME NEW t \in Txns, BeginIngest(t)
      PROVE  \/ op[u] = "ingest" /\ by'[u] = by[u]
             \/ by'[u] \in Linked /\ ChildOf[by'[u]] \in consent /\ UNCHANGED rows
  BY <1>0, <1>3 DEF BeginIngest, Report, MaySpeak, Begin, TxnTypes
<1>4. ASSUME NEW t \in Txns, BeginRevoke(t) \/ BeginErase(t)
      PROVE  op[u] = "ingest" /\ by'[u] = by[u]
  BY <1>0, <1>4 DEF BeginRevoke, BeginErase, Begin, TxnTypes
<1>5. CASE \/ CreatePairing \/ ClaimPairing \/ RegisterDevice \/ ReportTelemetry
           \/ RecordConsent \/ WithdrawConsent \/ Age
  BY <1>5 DEF CreatePairing, ClaimPairing, RegisterDevice, ReportTelemetry,
     RecordConsent, WithdrawConsent, Age, txns
<1>6. ASSUME NEW t \in Txns, ConnectionLost(t) PROVE op[u] = "ingest" /\ by'[u] = by[u]
  BY <1>1, <1>6 DEF ConnectionLost, Refuse
<1>7. CASE UNCHANGED vars
  BY <1>7 DEF vars, txns
<1> QED BY <1>2, <1>3, <1>4, <1>5, <1>6, <1>7 DEF Next

\* Consent goes with the child, or through a device that nobody holds.
LEMMA ConsentGoes ==
  ASSUME LocationInv, ChildLocked, [Next]_vars, NEW c \in consent, c \notin consent'
  PROVE  c \in archived' \/ \E d \in Linked : ChildOf[d] = c /\ lock[d] = None
<1>0. RowTypes /\ TxnTypes /\ consent' # consent /\ c \in Children
  BY Parts DEF RowTypes
<1>1. ASSUME NEW t \in Txns, Refuse(t) PROVE FALSE
  BY <1>0, <1>1 DEF Refuse, rows
<1>2. ASSUME NEW t \in Txns, Step(t) PROVE c \in archived'
  <2>1. CASE InsertFix(t)
    BY <1>0, <1>1, <2>1 DEF InsertFix, rows
  <2>2. CASE JudgeFix(t) \/ CutFixes(t) \/ CutSnapshots(t) \/ CutDevices(t)
    BY <1>0, <1>1, <2>2 DEF JudgeFix, CutFixes, CutSnapshots, CutDevices, rows
  <2>3. CASE CommitIngest(t) \/ CommitErase(t) \/ CommitRevoke(t)
    BY <1>0, <2>3 DEF CommitIngest, CommitErase, CommitRevoke, Revoke
  <2>5. CASE CommitRemove(t)
    <3>1. /\ archived' = archived \cup {item[t]}
          /\ consent' = consent \ Held(t)
      BY <1>1, <2>5 DEF CommitRemove
    <3>2. lock[c] = t /\ t # None
      BY <3>1, RowsAssumption DEF Held
    <3> QED BY <1>0, <3>1, <3>2 DEF ChildLocked
  <2>6. CASE DeadlockDetected(t)
    BY <1>1, <2>6 DEF DeadlockDetected
  <2> QED BY <1>2, <2>1, <2>2, <2>3, <2>5, <2>6 DEF Step
<1>3. ASSUME NEW t \in Txns, BeginIngest(t) \/ BeginRevoke(t) \/ BeginErase(t) PROVE FALSE
  BY <1>0, <1>3 DEF BeginIngest, BeginRevoke, BeginErase, Report, Begin, rows
<1>4. CASE CreatePairing \/ ClaimPairing \/ RegisterDevice \/ ReportTelemetry \/ Age
  BY <1>0, <1>4 DEF CreatePairing, ClaimPairing, RegisterDevice, ReportTelemetry, Age
<1>5. CASE RecordConsent
  BY <1>5 DEF RecordConsent
<1>6. CASE WithdrawConsent
  BY <1>6 DEF WithdrawConsent, Unlocked
<1>7. ASSUME NEW t \in Txns, ConnectionLost(t) PROVE FALSE
  BY <1>1, <1>7 DEF ConnectionLost
<1>8. CASE UNCHANGED vars
  BY <1>0, <1>8 DEF vars, rows
<1> QED BY <1>2, <1>3, <1>4, <1>5, <1>6, <1>7, <1>8 DEF Next

\* The rows of children are locked by the removal of the child, before it commits.
LEMMA ChildLockedStep ==
  ASSUME LocationInv, ChildLocked, [Next]_vars
  PROVE  ChildLocked'
<1> SUFFICES ASSUME NEW c \in Children, lock'[c] # None
             PROVE  op'[lock'[c]] = "remove" /\ item'[lock'[c]] = c
  BY DEF ChildLocked
<1>0. /\ TxnTypes /\ RowTypes /\ c \in Rows /\ None \notin Txns
      /\ c \notin Devices /\ c \notin Fixes
  BY Parts, RowsAssumption DEF Rows
<1>1. ASSUME UNCHANGED <<lock, op, item>>
      PROVE  op'[lock'[c]] = "remove" /\ item'[lock'[c]] = c
  BY <1>1 DEF ChildLocked
<1>2. ASSUME NEW t \in Txns, End(t)
      PROVE  op'[lock'[c]] = "remove" /\ item'[lock'[c]] = c
  <2>1. lock'[c] = lock[c] /\ lock[c] # t /\ lock[c] \in Txns
    BY <1>0, <1>2 DEF End, TxnTypes
  <2>2. op'[lock[c]] = op[lock[c]] /\ item'[lock[c]] = item[lock[c]]
    BY <1>0, <1>2, <2>1 DEF End, TxnTypes
  <2> QED BY <2>1, <2>2 DEF ChildLocked
<1>3. ASSUME NEW t \in Txns, NEW set \in SUBSET (Devices \cup Fixes), NEW step,
             TakeAll(t, set, step), UNCHANGED <<op, item>>
      PROVE  op'[lock'[c]] = "remove" /\ item'[lock'[c]] = c
  <2>1. lock'[c] = lock[c]
    BY <1>0, <1>3 DEF TakeAll
  <2> QED BY <1>3, <2>1 DEF ChildLocked
<1>4. ASSUME NEW t \in Txns, Step(t)
      PROVE  op'[lock'[c]] = "remove" /\ item'[lock'[c]] = c
  <2>1. CASE InsertFix(t)
    BY <1>1, <1>2, <2>1 DEF InsertFix, Refuse
  <2>2. CASE JudgeFix(t)
    BY <1>1, <2>2 DEF JudgeFix
  <2>3. CASE CommitIngest(t) \/ CommitErase(t) \/ CommitRevoke(t) \/ CommitRemove(t)
    BY <1>2, <2>3 DEF CommitIngest, CommitErase, CommitRevoke, Revoke, CommitRemove, Refuse
  <2>4. CASE CutFixes(t)
    <3>1. FixesOf(item[t]) \subseteq Devices \cup Fixes
      BY DEF FixesOf, Stored
    <3> QED BY <1>2, <1>3, <2>4, <3>1 DEF CutFixes, Refuse
  <2>5. CASE CutSnapshots(t)
    <3>1. DevicesOf(item[t]) \cap snapshot \subseteq Devices \cup Fixes
      BY DEF DevicesOf, Linked
    <3> QED BY <1>3, <2>5, <3>1 DEF CutSnapshots
  <2>6. CASE CutDevices(t)
    <3>1. op[t] = "remove"
      BY <2>6, Parts DEF CutDevices, Erasing, AllHold, Holds, ErasureHolds, At
    <3>2. lock'[c] = IF c \in CutOff(t) THEN t ELSE lock[c]
      BY <1>0, <2>6 DEF CutDevices, TakeAll
    <3>3. c \in CutOff(t) => c = item[t]
      BY <1>0 DEF CutOff, DevicesOf, Linked
    <3> QED BY <2>6, <3>1, <3>2, <3>3 DEF CutDevices, ChildLocked
  <2>7. CASE DeadlockDetected(t)
    BY <1>2, <2>7 DEF DeadlockDetected, Refuse
  <2> QED BY <1>4, <2>1, <2>2, <2>3, <2>4, <2>5, <2>6, <2>7 DEF Step
<1>5. ASSUME NEW t \in Txns, BeginIngest(t) \/ BeginRevoke(t) \/ BeginErase(t)
      PROVE  op'[lock'[c]] = "remove" /\ item'[lock'[c]] = c
  <2>1. /\ pc[t] = "idle" /\ lock'[c] = lock[c]
        /\ \A u \in Txns \ {t} : op'[u] = op[u] /\ item'[u] = item[u]
    BY <1>0, <1>5 DEF BeginIngest, BeginRevoke, BeginErase, Report, Begin, TxnTypes
  <2>2. lock[c] \in Txns /\ op[lock[c]] = "remove" /\ item[lock[c]] = c
    BY <1>0, <2>1 DEF TxnTypes, ChildLocked
  <2>3. op[t] = "none"
    BY <2>1, Parts DEF AllHold, Holds
  <2> QED BY <2>1, <2>2, <2>3
<1>6. CASE \/ CreatePairing \/ ClaimPairing \/ RegisterDevice \/ ReportTelemetry
           \/ RecordConsent \/ WithdrawConsent \/ Age
  BY <1>1, <1>6 DEF CreatePairing, ClaimPairing, RegisterDevice, ReportTelemetry,
     RecordConsent, WithdrawConsent, Age, txns
<1>7. ASSUME NEW t \in Txns, ConnectionLost(t)
      PROVE  op'[lock'[c]] = "remove" /\ item'[lock'[c]] = c
  BY <1>2, <1>7 DEF ConnectionLost, Refuse
<1>8. CASE UNCHANGED vars
  BY <1>1, <1>8 DEF vars, txns
<1> QED BY <1>4, <1>5, <1>6, <1>7, <1>8 DEF Next

\* A report holds its device: consent that is withdrawn meanwhile is withdrawn through
\* another device of the child, or with the child.
THEOREM ConsentInvariant == Spec => []ConsentInv
<1>1. Init => ConsentInv
  BY DEF Init, ConsentInv, ChildLocked, BegunByConsent, Rows
<1>2. ASSUME LocationInv, ConsentInv, [Next]_vars PROVE ConsentInv'
  <2>1. ChildLocked'
    BY <1>2, ChildLockedStep DEF ConsentInv
  <2>2. ASSUME NEW u \in Txns PROVE BegunByConsent(u)'
    <3> SUFFICES ASSUME op'[u] = "ingest"
                 PROVE  /\ by'[u] \in Linked'
                        /\ \/ ChildOf[by'[u]] \in consent'
                           \/ ChildOf[by'[u]] \in archived'
                           \/ (~Lone(by[u]))'
      BY DEF BegunByConsent
    <3>1. Linked \subseteq Linked' /\ archived \subseteq archived'
      BY <1>2, LinkedStay
    <3>2. ~Lone(by[u]) /\ by'[u] = by[u] => (~Lone(by[u]))'
      BY <3>1 DEF Lone
    <3>3. CASE by'[u] \in Linked /\ ChildOf[by'[u]] \in consent /\ UNCHANGED rows
      BY <3>1, <3>3 DEF rows
    <3>4. CASE op[u] = "ingest" /\ by'[u] = by[u]
      <4>1. /\ by[u] \in Linked
            /\ \/ ChildOf[by[u]] \in consent
               \/ ChildOf[by[u]] \in archived
               \/ ~Lone(by[u])
        BY <1>2, <3>4 DEF ConsentInv, BegunByConsent
      <4>2. lock[by[u]] = u /\ u # None
        BY <1>2, <3>4, Parts, RowsAssumption DEF AllHold, Holds, ReportHolds
      <4>3. CASE ChildOf[by[u]] \in consent /\ ChildOf[by[u]] \notin consent'
        <5>1. CASE ChildOf[by[u]] \in archived'
          BY <3>4, <4>1, <3>1, <5>1
        <5>2. CASE \E d \in Linked : ChildOf[d] = ChildOf[by[u]] /\ lock[d] = None
          <6>1. ~Lone(by[u])
            BY <4>2, <5>2 DEF Lone
          <6> QED BY <3>1, <3>2, <3>4, <4>1, <6>1
        <5> QED BY <1>2, <4>3, <5>1, <5>2, ConsentGoes DEF ConsentInv
      <4> QED BY <3>1, <3>2, <3>4, <4>1, <4>3
    <3> QED BY <1>2, <3>3, <3>4, ReportsBefore
  <2> QED BY <2>1, <2>2 DEF ConsentInv
<1> QED BY <1>1, <1>2, LocationInvariant, PTL DEF Spec

\* A position that is stored without the consent of the child is of a child with another
\* device, or of one that was removed while it was sent.
THEOREM ConsentIsKept == Spec => StoredByConsent
<1>1. ASSUME LocationInv, ConsentInv, [Next]_vars
      PROVE  \A f \in Fixes : fix[f] = None /\ fix'[f] # None =>
               \/ ChildOf[fix'[f]] \in consent
               \/ ChildOf[fix'[f]] \in archived
               \/ ~Lone(fix'[f])
  <2> SUFFICES ASSUME NEW f \in Fixes, fix[f] = None, fix'[f] # None
               PROVE  \/ ChildOf[fix'[f]] \in consent
                      \/ ChildOf[fix'[f]] \in archived
                      \/ ~Lone(fix'[f])
    OBVIOUS
  <2>1. PICK t \in Txns : CommitIngest(t) /\ item[t] = f
    BY <1>1, OnlyReportsStore
  <2>2. op[t] = "ingest" /\ fix'[f] = by[t]
    BY <2>1 DEF CommitIngest, At
  <2> QED BY <1>1, <2>2 DEF ConsentInv, BegunByConsent
<1> QED BY <1>1, LocationInvariant, ConsentInvariant, PTL DEF Spec, StoredByConsent
-----------------------------------------------------------------------------
(* What a handset tells of a zone.                                         *)

\* Of two crossings of one kind, one of the other kind is between.
Alternates(S) ==
  \A x, y \in S :
    /\ x.zone = y.zone /\ x.kind = y.kind
    /\ RecordedAt[x.fix] < RecordedAt[y.fix]
    => \E w \in S : /\ w.zone = x.zone /\ w.kind # x.kind
                    /\ RecordedAt[x.fix] < RecordedAt[w.fix]
                    /\ RecordedAt[w.fix] < RecordedAt[y.fix]

Kinded(S) == \A x \in S : x.kind = IF x.zone \in Inside[x.fix] THEN "ENTER" ELSE "EXIT"

\* A fix that is judged is the newest of its device until its report ends, and what was
\* judged goes on with what the device told so far.
Ahead(t) ==
  At(t, "ingest", "cross") \/ made[t] # {} =>
    \A g \in FixesBy(by[t]) : RecordedAt[g] < RecordedAt[item[t]]

Told(t) ==
  /\ Kinded(made[t])
  /\ made[t] # {} /\ Lone(by[t]) => Alternates(CrossingsBy(by[t]) \cup made[t])

\* No two erasures delete one crossing, and what one deletes of a device is older than what
\* it leaves.
CutsApart(t) ==
  /\ cut[t] \subseteq crossing
  /\ \A u \in Txns \ {t} : cut[t] \cap cut[u] = {}

CutFirst(t) ==
  \A x \in cut[t], y \in crossing \ cut[t] :
    fix[x.fix] = fix[y.fix] => RecordedAt[x.fix] < RecordedAt[y.fix]

StoredLinked == \A f \in Stored : fix[f] \in Linked

AllAlternate == \A d \in Devices : Lone(d) => Alternates(CrossingsBy(d))

TellInv ==
  /\ Kinded(crossing) /\ StoredLinked /\ AllAlternate
  /\ \A t \in Txns : Ahead(t) /\ Told(t) /\ CutsApart(t) /\ CutFirst(t)

\* A non-empty set of numbers has a least one.
LEMMA LeastOne ==
  ASSUME NEW S \in SUBSET Nat, S # {}
  PROVE  \E m \in S : \A n \in S : m <= n
<1> DEFINE Less == {p \in Nat \X Nat : p[1] < p[2]}
<1>0. IsWellFoundedOn(Less, Nat)
  BY NatLessThanWellFounded DEF OpToRel
<1>1. \A m \in S : \A n \in S : n < m => <<n, m>> \in Less
  OBVIOUS
<1> HIDE DEF Less
<1>2. S \subseteq Nat
  OBVIOUS
<1>3. \E m \in S : \A n \in S : ~(<<n, m>> \in Less)
  BY <1>0, <1>2, WFMin, Zenon
<1> QED
  <2>1. PICK m \in S : \A n \in S : ~(<<n, m>> \in Less)
    BY <1>3
  <2>2. \A n \in S : ~(n < m)
    BY <1>1, <2>1
  <2>3. \A n \in S : m <= n
    BY <2>2
  <2> QED BY <2>3

\* Of crossings before a moment one is the last.
LEMMA LastOne ==
  ASSUME NEW S \in SUBSET Crossings, S # {}, NEW n \in Nat,
         \A x \in S : RecordedAt[x.fix] < n
  PROVE  \E l \in S : \A x \in S : RecordedAt[x.fix] <= RecordedAt[l.fix]
<1> DEFINE ages == {n - RecordedAt[x.fix] : x \in S}
<1>1. \A x \in S : RecordedAt[x.fix] \in Nat
  BY FixesAssumption DEF Crossings
<1>2. ages \in SUBSET Nat /\ ages # {}
  BY <1>1
<1>3. PICK m \in ages : \A k \in ages : m <= k
  <2> HIDE DEF ages
  <2> QED BY <1>2, LeastOne
<1>4. PICK l \in S : m = n - RecordedAt[l.fix]
  BY <1>3
<1>5. \A x \in S : n - RecordedAt[l.fix] <= n - RecordedAt[x.fix]
  BY <1>3, <1>4
<1>6. \A x \in S : RecordedAt[x.fix] <= RecordedAt[l.fix]
  BY <1>1, <1>5
<1> QED BY <1>6

\* To take away what is older leaves turns.
LEMMA NewerAlternate ==
  ASSUME NEW S \in SUBSET Crossings, NEW T \in SUBSET S, Alternates(S),
         \A x \in S \ T, y \in T : RecordedAt[x.fix] < RecordedAt[y.fix]
  PROVE  Alternates(T)
<1> SUFFICES ASSUME NEW x \in T, NEW y \in T, x.zone = y.zone, x.kind = y.kind,
                    RecordedAt[x.fix] < RecordedAt[y.fix]
             PROVE  \E w \in T : /\ w.zone = x.zone /\ w.kind # x.kind
                                 /\ RecordedAt[x.fix] < RecordedAt[w.fix]
                                 /\ RecordedAt[w.fix] < RecordedAt[y.fix]
  BY DEF Alternates
<1>1. PICK w \in S : /\ w.zone = x.zone /\ w.kind # x.kind
                     /\ RecordedAt[x.fix] < RecordedAt[w.fix]
                     /\ RecordedAt[w.fix] < RecordedAt[y.fix]
  BY DEF Alternates
<1>2. RecordedAt[x.fix] \in Nat /\ RecordedAt[w.fix] \in Nat
  BY FixesAssumption DEF Crossings
<1>3. w \in T
  BY <1>1, <1>2
<1> QED BY <1>1, <1>3

\* What a lone device told is what is stored of its child.
LEMMA LoneTells ==
  ASSUME LocationInv, StoredLinked, NEW d \in Linked, Lone(d)
  PROVE  CrossingsOf(ChildOf[d]) = CrossingsBy(d)
<1>1. \A f \in Stored : ChildOf[fix[f]] = ChildOf[d] <=> fix[f] = d
  BY DEF StoredLinked, Lone
<1> QED BY <1>1 DEF CrossingsOf, CrossingsBy, FixesOf, FixesBy

\* ingestFix judges a fix by the last crossing of each zone: it tells the other kind.
LEMMA JudgedAlternates ==
  ASSUME LocationInv, StoredLinked, Kinded(crossing), NEW d \in Linked, Lone(d),
         Alternates(CrossingsBy(d)), NEW f \in Fixes,
         \A g \in FixesBy(d) : RecordedAt[g] < RecordedAt[f]
  PROVE  Alternates(CrossingsBy(d) \cup Judged(f, ChildOf[d]))
<1> DEFINE old == CrossingsBy(d)
           new == Judged(f, ChildOf[d])
<1>1. old \subseteq Crossings /\ old \subseteq crossing
  BY Parts DEF RowTypes, CrossingsBy
<1>2. \A x \in old : RecordedAt[x.fix] < RecordedAt[f] /\ x.fix \in Fixes
  BY <1>1 DEF CrossingsBy, Crossings
<1>3. \A g \in Fixes : RecordedAt[g] \in Nat
  BY FixesAssumption
<1>4. \A y \in new : /\ y.zone \in Zones /\ y.fix = f /\ y.kind \in {"ENTER", "EXIT"}
                     /\ y.kind = "ENTER" <=> ~WasInside(y.zone, ChildOf[d])
  <2> TAKE y \in new
  <2>1. PICK z \in Zones : /\ (z \in Inside[f]) # WasInside(z, ChildOf[d])
                           /\ y = CrossingIn(z, f)
    BY DEF Judged
  <2>2. y.zone = z /\ y.fix = f /\ y.kind = IF z \in Inside[f] THEN "ENTER" ELSE "EXIT"
    BY <2>1 DEF CrossingIn
  <2>3. z \in Inside[f] <=> ~WasInside(z, ChildOf[d])
    <3>1. ASSUME NEW p \in BOOLEAN, NEW q \in BOOLEAN, p # q PROVE p <=> ~q
      BY <3>1
    <3>2. (z \in Inside[f]) \in BOOLEAN /\ WasInside(z, ChildOf[d]) \in BOOLEAN
      BY DEF WasInside
    <3> QED BY <2>1, <3>1, <3>2, Zenon
  <2> QED BY <2>2, <2>3
<1>5. \A z : Last(z, ChildOf[d]) = {x \in old : x.zone = z /\ \A y \in old :
                                       y.zone = z => RecordedAt[y.fix] <= RecordedAt[x.fix]}
  BY LoneTells DEF Last
<1>6. \A x, l \in old : x.zone = l.zone /\ x.kind # l.kind => RecordedAt[x.fix] # RecordedAt[l.fix]
  BY <1>1, <1>2, FixesAssumption DEF Kinded
<1>7. \A x \in old : x.kind \in {"ENTER", "EXIT"}
  BY <1>1 DEF Crossings
<1> SUFFICES ASSUME NEW x \in old \cup new, NEW y \in old \cup new,
                    x.zone = y.zone, x.kind = y.kind,
                    RecordedAt[x.fix] < RecordedAt[y.fix]
             PROVE  \E w \in old \cup new : /\ w.zone = x.zone /\ w.kind # x.kind
                                            /\ RecordedAt[x.fix] < RecordedAt[w.fix]
                                            /\ RecordedAt[w.fix] < RecordedAt[y.fix]
  BY DEF Alternates
<1> HIDE DEF old, new
<1>8. CASE x \in old /\ y \in old
  <2>1. Alternates(old)
    BY DEF old
  <2> QED BY <1>8, <2>1 DEF Alternates
<1>9. CASE x \in new
  BY <1>2, <1>3, <1>4, <1>9
<1>10. CASE x \in old /\ y \in new
  <2> DEFINE there == {v \in old : v.zone = x.zone}
  <2>1. there \in SUBSET Crossings /\ there # {} /\ x \in there
    BY <1>1, <1>10
  <2>2. \A v \in there : RecordedAt[v.fix] < RecordedAt[f]
    BY <1>2
  <2>3. RecordedAt[f] \in Nat
    BY <1>3
  <2>4. PICK l \in there : \A v \in there : RecordedAt[v.fix] <= RecordedAt[l.fix]
    <3> HIDE DEF there
    <3> QED BY <2>1, <2>2, <2>3, LastOne
  <2>5. l \in Last(x.zone, ChildOf[d])
    BY <1>5, <2>4
  <2>6. PICK w \in old : w.zone = x.zone /\ w.kind # x.kind
                         /\ \A v \in there : RecordedAt[v.fix] <= RecordedAt[w.fix]
    <3>1. CASE WasInside(x.zone, ChildOf[d])
      <4>1. PICK w \in Last(x.zone, ChildOf[d]) : w.kind = "ENTER"
        BY <3>1 DEF WasInside
      <4>2. w \in old /\ w.zone = x.zone /\ \A v \in there : RecordedAt[v.fix] <= RecordedAt[w.fix]
        BY <1>5, <4>1
      <4>3. y.kind = "EXIT"
        BY <1>4, <1>10, <3>1
      <4> QED BY <4>1, <4>2, <4>3
    <3>2. CASE ~WasInside(x.zone, ChildOf[d])
      <4>1. l.kind # "ENTER"
        BY <2>5, <3>2 DEF WasInside
      <4>2. y.kind = "ENTER"
        BY <1>4, <1>10, <3>2
      <4> QED BY <2>4, <4>1, <4>2
    <3> QED BY <3>1, <3>2
  <2>7. RecordedAt[x.fix] <= RecordedAt[w.fix] /\ RecordedAt[x.fix] # RecordedAt[w.fix]
    BY <1>6, <1>10, <2>1, <2>6
  <2>8. RecordedAt[x.fix] < RecordedAt[w.fix] /\ RecordedAt[w.fix] < RecordedAt[y.fix]
    BY <1>2, <1>3, <1>4, <1>10, <2>6, <2>7
  <2> QED BY <2>6, <2>8
<1> QED BY <1>8, <1>9, <1>10

\* What a transaction knows of its report, as the step leaves it: the same, or nothing.
Same(u) ==
  op'[u] = op[u] /\ pc'[u] = pc[u] /\ by'[u] = by[u] /\ item'[u] = item[u] /\ made'[u] = made[u]

Rests(u) == made'[u] = {} /\ ~At(u, "ingest", "cross")'

\* Crossings and fixes go, of each device the oldest crossings first.
Shrinks ==
  /\ crossing' \subseteq crossing
  /\ \A x \in crossing' : fix'[x.fix] = fix[x.fix]
  /\ \A f \in Fixes : fix'[f] \in {fix[f], None}
  /\ \A x \in crossing \ crossing', y \in crossing' :
       fix[x.fix] = fix[y.fix] => RecordedAt[x.fix] < RecordedAt[y.fix]

\* A device that is lone after a step was so before it.
LEMMA LoneBefore ==
  ASSUME Linked \subseteq Linked', NEW d, Lone(d)'
  PROVE  Lone(d)
<1> QED BY DEF Lone

LEMMA ShrinkStep ==
  ASSUME LocationInv, TellInv, Linked \subseteq Linked', Shrinks,
         \A u \in Txns : Same(u) \/ Rests(u) \/ (Ahead(u)' /\ Told(u)'),
         \A u \in Txns : \/ cut'[u] = {}
                         \/ cut'[u] = cut[u] /\ cut[u] \subseteq crossing'
                         \/ CutsApart(u)' /\ CutFirst(u)'
  PROVE  TellInv'
<1>0. /\ RowTypes /\ AllHold /\ CrossingHasFix
      /\ Kinded(crossing) /\ StoredLinked /\ AllAlternate
  BY Parts DEF TellInv
<1>1. Kinded(crossing')
  BY <1>0 DEF Shrinks, Kinded
<1>2. StoredLinked'
  BY <1>0, RowsAssumption DEF Shrinks, StoredLinked, Stored
<1>3. \A d : /\ FixesBy(d)' \subseteq FixesBy(d)
             /\ CrossingsBy(d)' = CrossingsBy(d) \cap crossing'
  BY <1>0, RowsAssumption DEF Shrinks, FixesBy, CrossingsBy, Stored, CrossingHasFix
<1>4. \A d : \A x \in CrossingsBy(d) \ crossing', y \in CrossingsBy(d) \cap crossing' :
        RecordedAt[x.fix] < RecordedAt[y.fix]
  BY DEF Shrinks, CrossingsBy, FixesBy
<1>5. \A d : CrossingsBy(d) \in SUBSET Crossings
  BY <1>0 DEF CrossingsBy, RowTypes
<1>6. AllAlternate'
  <2> SUFFICES ASSUME NEW d \in Devices, Lone(d)' PROVE Alternates(CrossingsBy(d)')
    BY DEF AllAlternate, Alternates
  <2>1. Alternates(CrossingsBy(d))
    BY <1>0, LoneBefore DEF AllAlternate
  <2>2. Alternates(CrossingsBy(d) \cap crossing')
    BY <1>4, <1>5, <2>1, NewerAlternate
  <2> QED BY <1>3, <2>2
<1>7. ASSUME NEW u \in Txns PROVE Ahead(u)' /\ Told(u)'
  <2>1. CASE Rests(u)
    BY <2>1 DEF Rests, Ahead, Told, Kinded
  <2>2. CASE Same(u)
    <3>1. Ahead(u) /\ Told(u)
      BY DEF TellInv
    <3>2. Ahead(u)'
      BY <1>3, <2>2, <3>1 DEF Same, Ahead, At
    <3>3. Kinded(made[u])'
      BY <2>2, <3>1 DEF Same, Told, Kinded
    <3>4. ASSUME made'[u] # {}, Lone(by[u])'
          PROVE  Alternates(CrossingsBy(by[u]) \cup made[u])'
      <4>1. made'[u] = made[u] /\ by'[u] = by[u] /\ made[u] # {}
        BY <2>2, <3>4 DEF Same
      <4>2. Lone(by[u])
        BY <3>4, <4>1, LoneBefore DEF Lone
      <4> DEFINE S == CrossingsBy(by[u]) \cup made[u]
                 T == (CrossingsBy(by[u]) \cap crossing') \cup made[u]
      <4>3. Alternates(S)
        BY <3>1, <4>1, <4>2 DEF Told
      <4>4. S \in SUBSET Crossings /\ T \in SUBSET S
        BY <1>5, Parts DEF TxnTypes
      <4>5. \A x \in made[u] : x.fix = item[u]
        BY <1>0 DEF AllHold, Holds
      <4>6. \A x \in CrossingsBy(by[u]) : RecordedAt[x.fix] < RecordedAt[item[u]]
        BY <3>1, <4>1 DEF Ahead, CrossingsBy
      <4>7. \A x \in S \ T, y \in T : RecordedAt[x.fix] < RecordedAt[y.fix]
        BY <1>4, <4>5, <4>6
      <4>8. Alternates(T)
        <5> HIDE DEF S, T
        <5> QED BY <4>3, <4>4, <4>7, NewerAlternate
      <4>9. (CrossingsBy(by[u]) \cup made[u])' = T
        BY <1>3, <4>1 DEF CrossingsBy, FixesBy
      <4> HIDE DEF S, T
      <4> QED BY <4>8, <4>9 DEF Alternates
    <3> QED BY <3>2, <3>3, <3>4 DEF Told
  <2> QED BY <2>1, <2>2
<1>8. ASSUME NEW u \in Txns PROVE CutsApart(u)' /\ CutFirst(u)'
  <2>1. CASE cut'[u] = {}
    BY <2>1 DEF CutsApart, CutFirst
  <2>2. CASE cut'[u] = cut[u] /\ cut[u] \subseteq crossing'
    <3>1. CutsApart(u) /\ CutFirst(u)
      BY DEF TellInv
    <3>2. CutFirst(u)'
      BY <2>2, <3>1 DEF CutFirst, Shrinks
    <3>3. ASSUME NEW v \in Txns \ {u} PROVE cut'[u] \cap cut'[v] = {}
      BY <2>2, <3>1 DEF CutsApart
    <3> QED BY <2>2, <3>2, <3>3 DEF CutsApart
  <2> QED BY <2>1, <2>2
<1> QED BY <1>1, <1>2, <1>6, <1>7, <1>8 DEF TellInv, Kinded

\* A step that neither stores nor deletes.
LEMMA StillStep ==
  ASSUME LocationInv, TellInv, Linked \subseteq Linked', UNCHANGED <<crossing, fix>>,
         \A u \in Txns : Same(u) \/ Rests(u) \/ (Ahead(u)' /\ Told(u)'),
         \A u \in Txns : \/ cut'[u] = {} \/ cut'[u] = cut[u]
                         \/ CutsApart(u)' /\ CutFirst(u)'
  PROVE  TellInv'
<1>1. Shrinks
  BY DEF Shrinks
<1>2. \A u \in Txns : cut[u] \subseteq crossing'
  BY DEF TellInv, CutsApart
<1> QED BY <1>1, <1>2, ShrinkStep

\* Ending forgets, whether the transaction commits or not.
LEMMA EndForgets ==
  ASSUME LocationInv, NEW t \in Txns, End(t)
  PROVE  /\ Rests(t) /\ cut'[t] = {}
         /\ \A u \in Txns \ {t} : Same(u) /\ cut'[u] = cut[u]
<1> QED BY Parts, EndStep DEF End, TxnTypes, Rests, Same, Untouched, At

LEMMA ForgetStep ==
  ASSUME LocationInv, TellInv, [Next]_vars, NEW t \in Txns, End(t), UNCHANGED <<crossing, fix>>
  PROVE  TellInv'
<1>1. \A u \in Txns : (Same(u) \/ Rests(u)) /\ (cut'[u] = {} \/ cut'[u] = cut[u])
  BY EndForgets
<1> QED BY <1>1, LinkedStay, StillStep

\* A fix is judged by what its device told, which goes on while it is the newest.
LEMMA InsertTells ==
  ASSUME LocationInv, TellInv, [Next]_vars, NEW t \in Txns, InsertFix(t)
  PROVE  TellInv'
<1>0. TxnTypes /\ RowTypes /\ Holds(t)
  BY Parts DEF AllHold
<1>1. op[t] = "ingest" /\ pc[t] = "insert" /\ by[t] \in Devices /\ item[t] \in Fixes
  BY <1>0 DEF InsertFix, At, Holds, ReportHolds
<1>2. CASE End(t) /\ UNCHANGED <<crossing, fix>>
  BY <1>2, ForgetStep
<1>3. CASE /\ fix[item[t]] = None
           /\ pc' = [pc EXCEPT ![t] = IF NotJudged(item[t], ChildOf[by[t]])
                                      THEN "commit" ELSE "cross"]
           /\ UNCHANGED <<rows, lock, op, by, own, item, made, cut, emptied>>
  <2>1. UNCHANGED <<crossing, fix, op, by, item, made, cut>>
    BY <1>3 DEF rows
  <2>2. \A u \in Txns \ {t} : Same(u)
    BY <1>0, <1>3 DEF Same, TxnTypes
  <2>3. made'[t] = {}
    BY <1>0, <1>1, <2>1 DEF Holds, At
  <2>4. CASE NotJudged(item[t], ChildOf[by[t]])
    <3>1. Rests(t)
      BY <1>0, <1>3, <2>3, <2>4 DEF Rests, At, TxnTypes
    <3> QED BY <2>1, <2>2, <3>1, LinkedStay, StillStep
  <2>5. CASE ~NotJudged(item[t], ChildOf[by[t]])
    <3>1. \A g \in FixesOf(ChildOf[by[t]]) : g # item[t] => ~(RecordedAt[item[t]] < RecordedAt[g])
      BY <2>5 DEF NotJudged
    <3>2. \A g \in FixesBy(by[t]) : g \in FixesOf(ChildOf[by[t]]) /\ g # item[t] /\ g \in Fixes
      BY <1>3, <1>1 DEF FixesBy, FixesOf, Stored
    <3>3. \A g \in FixesBy(by[t]) : RecordedAt[g] < RecordedAt[item[t]]
      BY <1>1, <3>1, <3>2, FixesAssumption
    <3>4. Ahead(t)'
      BY <2>1, <3>3 DEF Ahead, FixesBy, Stored
    <3>5. Told(t)'
      BY <2>3 DEF Told, Kinded
    <3> QED BY <2>1, <2>2, <3>4, <3>5, LinkedStay, StillStep
  <2> QED BY <2>4, <2>5
<1> QED
  BY <1>2, <1>3 DEF InsertFix, Refuse, rows

LEMMA JudgeTells ==
  ASSUME LocationInv, TellInv, [Next]_vars, NEW t \in Txns, ConsentInv, JudgeFix(t)
  PROVE  TellInv'
<1>0. TxnTypes /\ RowTypes /\ Holds(t)
  BY Parts DEF AllHold
<1>1. op[t] = "ingest" /\ At(t, "ingest", "cross") /\ item[t] \in Fixes /\ by[t] \in Linked
  BY <1>0 DEF JudgeFix, At, Holds, ReportHolds, ConsentInv, BegunByConsent
<1>2. /\ UNCHANGED <<crossing, fix, op, by, item, cut, device>>
      /\ made'[t] = Judged(item[t], ChildOf[by[t]])
      /\ \A u \in Txns \ {t} : Same(u)
  BY <1>0 DEF JudgeFix, rows, Same, TxnTypes
<1>3. \A g \in FixesBy(by[t]) : RecordedAt[g] < RecordedAt[item[t]]
  BY <1>1 DEF TellInv, Ahead
<1>4. Ahead(t)'
  BY <1>2, <1>3 DEF Ahead, FixesBy, Stored
<1>5. Kinded(made'[t])
  BY <1>2 DEF Kinded, Judged, CrossingIn
<1>6. ASSUME Lone(by[t]) PROVE Alternates(CrossingsBy(by[t]) \cup made'[t])
  <2>1. Alternates(CrossingsBy(by[t])) /\ StoredLinked /\ Kinded(crossing)
    BY <1>1, <1>6 DEF TellInv, AllAlternate, Linked
  <2> QED BY <1>1, <1>2, <1>3, <1>6, <2>1, JudgedAlternates
<1>7. CrossingsBy(by[t])' = CrossingsBy(by[t]) /\ by'[t] = by[t]
  BY <1>2 DEF CrossingsBy, FixesBy, Stored
<1>8. Lone(by[t])' => Lone(by[t])
  BY <1>2 DEF Lone, Linked
<1>9. Told(t)'
  BY <1>5, <1>6, <1>7, <1>8 DEF Told, Kinded, Alternates
<1> QED BY <1>2, <1>4, <1>9, LinkedStay, StillStep

LEMMA IngestTells ==
  ASSUME LocationInv, TellInv, [Next]_vars, NEW t \in Txns, ConsentInv, CommitIngest(t)
  PROVE  TellInv'
<1>d. PICK d : d = by[t]
  OBVIOUS
<1>f. PICK f : f = item[t]
  OBVIOUS
<1>0. TxnTypes /\ RowTypes /\ AllHold /\ CrossingHasFix /\ Holds(t)
  BY Parts DEF AllHold
<1>1. /\ op[t] = "ingest" /\ pc[t] = "commit" /\ lock[d] = t /\ f \in Fixes /\ d \in Devices
      /\ fix[f] = None /\ d \in Linked /\ d # None
  BY <1>d, <1>f, <1>0, RowsAssumption
     DEF CommitIngest, At, Holds, ReportHolds, ConsentInv, BegunByConsent
<1>2. /\ crossing' = crossing \cup made[t]
      /\ End(t)
      /\ fix' = [g \in Fixes |-> IF g \in Prunable(t) THEN None
                                 ELSE IF g = f THEN d ELSE fix[g]]
  BY <1>d, <1>f DEF CommitIngest
<1>3. \A x \in made[t] : x.fix = f
  BY <1>f, <1>0 DEF Holds
<1>4. Linked \subseteq Linked'
  BY LinkedStay
<1>5. /\ Rests(t) /\ cut'[t] = {}
      /\ \A u \in Txns \ {t} : Same(u) /\ cut'[u] = cut[u]
  BY <1>2, EndForgets
<1>6. \A x \in crossing : fix'[x.fix] = fix[x.fix] /\ fix[x.fix] # None /\ x.fix \in Fixes
  BY <1>f, <1>0, <1>1, <1>2 DEF CrossingHasFix, Stored, Prunable
<1>7. made[t] # {} => fix'[f] = d
  BY <1>1, <1>2, <1>3 DEF Prunable
<1>8. \A g \in Fixes : fix'[g] # None => fix'[g] = fix[g] \/ (g = f /\ fix'[g] = d)
  BY <1>2
<1>9. \A e : e # d => /\ FixesBy(e)' \subseteq FixesBy(e)
                      /\ CrossingsBy(e)' = CrossingsBy(e)
  <2> SUFFICES ASSUME NEW e, e # d
               PROVE  FixesBy(e)' \subseteq FixesBy(e) /\ CrossingsBy(e)' = CrossingsBy(e)
    OBVIOUS
  <2>1. FixesBy(e)' \subseteq FixesBy(e)
    BY <1>8 DEF FixesBy, Stored
  <2>2. \A x \in crossing : x \in CrossingsBy(e)' <=> x \in CrossingsBy(e)
    BY <1>2, <1>6 DEF CrossingsBy, FixesBy, Stored
  <2>3. \A x \in made[t] : x \notin CrossingsBy(e)'
    BY <1>3, <1>7 DEF CrossingsBy, FixesBy
  <2> QED BY <1>2, <2>1, <2>2, <2>3 DEF CrossingsBy
<1>10. CrossingsBy(d)' = CrossingsBy(d) \cup made[t]
  <2>1. \A x \in crossing : x \in CrossingsBy(d)' <=> x \in CrossingsBy(d)
    BY <1>2, <1>6 DEF CrossingsBy, FixesBy, Stored
  <2>2. \A x \in made[t] : x \in CrossingsBy(d)'
    BY <1>1, <1>2, <1>3, <1>7 DEF CrossingsBy, FixesBy, Stored
  <2> QED BY <1>2, <2>1, <2>2 DEF CrossingsBy
<1>11. Kinded(crossing)' /\ StoredLinked'
  <2>1. Kinded(crossing) /\ Kinded(made[t]) /\ StoredLinked
    BY DEF TellInv, Told
  <2>2. Kinded(crossing)'
    BY <1>2, <2>1 DEF Kinded
  <2>3. StoredLinked'
    BY <1>1, <1>4, <1>8, <2>1 DEF StoredLinked, Stored
  <2> QED BY <2>2, <2>3
<1>12. AllAlternate'
  <2> SUFFICES ASSUME NEW e \in Devices, Lone(e)' PROVE Alternates(CrossingsBy(e)')
    BY DEF AllAlternate, Alternates
  <2>1. Lone(e) /\ Alternates(CrossingsBy(e))
    BY <1>4, LoneBefore DEF TellInv, AllAlternate
  <2>2. CASE e # d
    BY <1>9, <2>1, <2>2
  <2>3. CASE e = d
    <3>1. made[t] # {} => Alternates(CrossingsBy(d) \cup made[t])
      BY <1>d, <2>1, <2>3 DEF TellInv, Told
    <3> QED BY <1>10, <2>1, <2>3, <3>1
  <2> QED BY <2>2, <2>3
<1>13. ASSUME NEW u \in Txns \ {t} PROVE Ahead(u)' /\ Told(u)'
  <2>1. Same(u) /\ Ahead(u) /\ Told(u)
    BY <1>5 DEF TellInv
  <2>2. op[u] = "ingest" => by[u] # d
    <3>1. Holds(u)
      BY <1>0 DEF AllHold
    <3>2. op[u] = "ingest" => lock[by[u]] = u
      BY <3>1 DEF Holds, ReportHolds
    <3> QED BY <1>1, <3>2
  <2>3. made[u] # {} => op[u] = "ingest"
    BY <1>0 DEF AllHold, Holds, At
  <2>4. Ahead(u)'
    BY <1>9, <2>1, <2>2, <2>3 DEF Same, Ahead, At
  <2>5. ASSUME made'[u] # {}, Lone(by[u])'
        PROVE  Alternates(CrossingsBy(by[u]) \cup made[u])'
    <3>1. made'[u] = made[u] /\ by'[u] = by[u] /\ made[u] # {} /\ by[u] # d
      BY <2>1, <2>2, <2>3, <2>5 DEF Same
    <3>2. Lone(by[u])
      BY <1>4, <2>5, <3>1, LoneBefore DEF Lone
    <3>3. Alternates(CrossingsBy(by[u]) \cup made[u])
      BY <2>1, <3>1, <3>2 DEF Told
    <3>4. (CrossingsBy(by[u]) \cup made[u])' = CrossingsBy(by[u]) \cup made[u]
      BY <1>9, <3>1 DEF CrossingsBy, FixesBy
    <3> QED BY <3>3, <3>4 DEF Alternates
  <2>6. Kinded(made[u])'
    BY <2>1 DEF Same, Told, Kinded
  <2> QED BY <2>4, <2>5, <2>6 DEF Told
<1>14. Ahead(t)' /\ Told(t)' /\ CutsApart(t)' /\ CutFirst(t)'
  BY <1>5 DEF Rests, Ahead, Told, Kinded, CutsApart, CutFirst
<1>15. ASSUME NEW u \in Txns \ {t} PROVE CutsApart(u)' /\ CutFirst(u)'
  <2>1. CutsApart(u) /\ CutFirst(u) /\ cut'[u] = cut[u]
    BY <1>5 DEF TellInv
  <2>2. CutsApart(u)'
    BY <1>2, <1>5, <2>1 DEF CutsApart
  <2>3. CutFirst(u)'
    <3> SUFFICES ASSUME NEW x \in cut[u], NEW y \in crossing' \ cut[u], fix'[x.fix] = fix'[y.fix]
                 PROVE  RecordedAt[x.fix] < RecordedAt[y.fix]
      BY <2>1 DEF CutFirst
    <3>1. x \in crossing /\ fix'[x.fix] = fix[x.fix]
      BY <1>6, <2>1 DEF CutsApart
    <3>2. CASE y \in crossing
      BY <1>6, <2>1, <3>1, <3>2 DEF CutFirst
    <3>3. CASE y \in made[t]
      <4>1. x.fix \in FixesBy(d)
        BY <1>3, <1>6, <1>7, <3>1, <3>3 DEF FixesBy, Stored
      <4>2. \A g \in FixesBy(d) : RecordedAt[g] < RecordedAt[f]
        BY <1>d, <1>f, <3>3 DEF TellInv, Ahead
      <4> QED BY <1>3, <3>3, <4>1, <4>2
    <3> QED BY <1>2, <3>2, <3>3
  <2> QED BY <2>2, <2>3
<1> QED
  BY <1>11, <1>12, <1>13, <1>14, <1>15 DEF TellInv

\* Revoking deletes all that the device told.
LEMMA RevokeTells ==
  ASSUME LocationInv, TellInv, [Next]_vars, NEW t \in Txns, CommitRevoke(t)
  PROVE  TellInv'
<1>0. TxnTypes /\ RowTypes /\ CrossingHasFix
  BY Parts
<1>1. /\ End(t) /\ CrossingsBy(by[t]) \cap CutByOthers(t) = {}
      /\ crossing' = crossing \ CrossingsBy(by[t])
      /\ fix' = [f \in Fixes |-> IF f \in FixesBy(by[t]) THEN None ELSE fix[f]]
  BY DEF CommitRevoke, Revoke
<1>2. \A x \in crossing : x.fix \in Fixes /\ fix[x.fix] # None
  BY <1>0 DEF CrossingHasFix, Stored
<1>3. \A x \in crossing \ crossing', y \in crossing' : fix[x.fix] # fix[y.fix]
  BY <1>1, <1>2 DEF CrossingsBy, FixesBy, Stored
<1>4. \A x \in crossing' : fix'[x.fix] = fix[x.fix]
  BY <1>1, <1>2 DEF CrossingsBy
<1>5. Shrinks
  BY <1>1, <1>3, <1>4 DEF Shrinks
<1>6. /\ Rests(t) /\ cut'[t] = {}
      /\ \A u \in Txns \ {t} : Same(u) /\ cut'[u] = cut[u]
  BY <1>1, EndForgets
<1>7. ASSUME NEW u \in Txns \ {t} PROVE cut[u] \subseteq crossing'
  <2>1. cut[u] \subseteq crossing /\ cut[u] \subseteq CutByOthers(t)
    BY DEF TellInv, CutsApart, CutByOthers
  <2> QED BY <1>1, <2>1
<1> QED BY <1>5, <1>6, <1>7, LinkedStay, ShrinkStep

\* An erasure leaves of a device what it told since.
LEMMA ErasedTells ==
  ASSUME LocationInv, TellInv, [Next]_vars, NEW t \in Txns, End(t), Erased(t),
         Erasing(t, "commit")
  PROVE  TellInv'
<1>0. TxnTypes /\ RowTypes /\ CrossingHasFix /\ Holds(t)
  BY Parts DEF AllHold
<1>1. /\ crossing' = crossing \ cut[t]
      /\ fix' = [f \in Fixes |-> IF f \in Held(t) THEN None ELSE fix[f]]
  BY DEF Erased
<1>2. \A x \in crossing : x.fix \in Fixes
  BY <1>0 DEF CrossingHasFix, Stored
<1>3. \A x \in crossing' : x.fix \notin Held(t)
  BY <1>0, <1>1 DEF Erasing, Holds, ErasureHolds, Held
<1>4. \A x \in crossing' : fix'[x.fix] = fix[x.fix]
  BY <1>1, <1>2, <1>3
<1>5. Shrinks
  <2>1. CutFirst(t)
    BY DEF TellInv
  <2>2. \A x \in crossing \ crossing', y \in crossing' :
          fix[x.fix] = fix[y.fix] => RecordedAt[x.fix] < RecordedAt[y.fix]
    BY <1>1, <2>1 DEF CutFirst
  <2> QED BY <1>1, <1>4, <2>2 DEF Shrinks
<1>6. /\ Rests(t) /\ cut'[t] = {}
      /\ \A u \in Txns \ {t} : Same(u) /\ cut'[u] = cut[u]
  BY EndForgets
<1>7. ASSUME NEW u \in Txns \ {t} PROVE cut[u] \subseteq crossing'
  BY <1>1 DEF TellInv, CutsApart
<1> QED BY <1>5, <1>6, <1>7, LinkedStay, ShrinkStep

\* A second DELETE waits for the first, and takes all there is of the child.
LEMMA BeginEraseTells ==
  ASSUME LocationInv, TellInv, [Next]_vars, NEW t \in Txns, BeginErase(t)
  PROVE  TellInv'
<1>0. TxnTypes /\ RowTypes /\ CrossingHasFix
  BY Parts
<1>1. PICK c \in Children, kind \in {"erase", "remove"} :
        /\ CrossingsOf(c) \cap CutByOthers(t) = {}
        /\ Begin(t, kind, "fixes", None, FALSE, c, {})
        /\ cut' = [cut EXCEPT ![t] = CrossingsOf(c)]
  BY DEF BeginErase
<1>2. UNCHANGED <<crossing, fix, made>> /\ \A u \in Txns \ {t} : Same(u) /\ cut'[u] = cut[u]
  BY <1>0, <1>1 DEF Begin, rows, Same, TxnTypes
<1>3. Rests(t)
  <2>1. pc[t] = "idle" /\ op'[t] = kind
    BY <1>0, <1>1 DEF Begin, TxnTypes
  <2>2. made[t] = {}
    BY <2>1, Parts DEF AllHold, Holds, At
  <2> QED BY <1>2, <2>1, <2>2 DEF Rests, At
<1>4. cut'[t] = CrossingsOf(c)
  BY <1>0, <1>1 DEF TxnTypes
<1>5. CutsApart(t)'
  <2>1. \A u \in Txns \ {t} : cut[u] \subseteq CutByOthers(t)
    BY DEF CutByOthers
  <2> QED BY <1>1, <1>2, <1>4, <2>1 DEF CutsApart, CrossingsOf
<1>6. CutFirst(t)'
  BY <1>0, <1>2, <1>4 DEF CutFirst, CrossingsOf, FixesOf, CrossingHasFix
<1> QED BY <1>2, <1>3, <1>5, <1>6, LinkedStay, StillStep

\* The steps between the first DELETE of an erasure and its COMMIT.
LEMMA WaitTells ==
  ASSUME LocationInv, TellInv, [Next]_vars, NEW t \in Txns,
         CutFixes(t) \/ CutSnapshots(t) \/ CutDevices(t)
  PROVE  TellInv'
<1>0. TxnTypes
  BY Parts
<1>1. CASE Refuse(t)
  BY <1>1, ForgetStep DEF Refuse, rows
<1>2. CASE /\ Erasing(t, pc[t])
           /\ UNCHANGED <<rows, op, by, item, made, cut>>
           /\ \E set, step : TakeAll(t, set, step)
  <2>1. \A u \in Txns \ {t} : Same(u)
    BY <1>0, <1>2 DEF TakeAll, Same, TxnTypes
  <2>2. Rests(t)
    BY <1>2, Parts DEF Rests, Erasing, AllHold, Holds, At
  <2> QED BY <1>2, <2>1, <2>2, LinkedStay, StillStep DEF rows
<1> QED BY <1>1, <1>2 DEF CutFixes, CutSnapshots, CutDevices, Erasing

\* A report or a revocation that begins knows nothing of crossings.
LEMMA BeginTells ==
  ASSUME LocationInv, TellInv, [Next]_vars, NEW t \in Txns, BeginIngest(t) \/ BeginRevoke(t)
  PROVE  TellInv'
<1>0. TxnTypes
  BY Parts
<1>1. ASSUME NEW kind, NEW step \in {"insert", "commit"}, NEW d, NEW credential, NEW x,
             NEW set, Begin(t, kind, step, d, credential, x, set), UNCHANGED cut
      PROVE  TellInv'
  <2>1. /\ UNCHANGED <<crossing, fix, made>> /\ pc[t] = "idle" /\ pc'[t] = step
        /\ \A u \in Txns \ {t} : Same(u)
    BY <1>0, <1>1 DEF Begin, rows, Same, TxnTypes
  <2>2. Rests(t)
    BY <2>1, Parts DEF Rests, AllHold, Holds, At
  <2> QED BY <1>1, <2>1, <2>2, LinkedStay, StillStep
<1>2. CASE BeginIngest(t)
  <2>1. PICK d \in Devices, f \in Fixes, credential \in BOOLEAN :
          Begin(t, "ingest", "insert", d, credential, f, {d}) /\ UNCHANGED cut
    BY <1>2 DEF BeginIngest, Report
  <2> QED BY <1>1, <2>1
<1>3. CASE BeginRevoke(t)
  <2>1. PICK d \in Devices :
          Begin(t, "revoke", "commit", d, FALSE, None, {d}) /\ UNCHANGED cut
    BY <1>3 DEF BeginRevoke
  <2> QED BY <1>1, <2>1
<1> QED BY <1>2, <1>3

\* Fixes are judged one after the other while their device is held, and are erased the
\* oldest first.
THEOREM TellInvariant == Spec => []TellInv
<1>1. Init => TellInv
  BY DEF Init, TellInv, Kinded, StoredLinked, AllAlternate, Alternates, CrossingsBy, Stored,
     Ahead, Told, At, CutsApart, CutFirst
<1>2. ASSUME LocationInv, ConsentInv, TellInv, [Next]_vars PROVE TellInv'
  <2>1. CASE UNCHANGED vars
    BY <1>2, <2>1, LinkedStay, StillStep DEF vars, rows, txns, Same
  <2>2. CASE \/ CreatePairing \/ ClaimPairing \/ RegisterDevice \/ ReportTelemetry
             \/ RecordConsent \/ WithdrawConsent \/ Age
    <3>1. UNCHANGED <<crossing, fix, op, pc, by, item, made, cut>>
      BY <2>2 DEF CreatePairing, ClaimPairing, RegisterDevice, ReportTelemetry,
         RecordConsent, WithdrawConsent, Age, txns
    <3>2. \A u \in Txns : Same(u) /\ cut'[u] = cut[u]
      BY <3>1 DEF Same
    <3> QED BY <1>2, <3>1, <3>2, LinkedStay, StillStep
  <2>3. ASSUME NEW t \in Txns, BeginIngest(t) \/ BeginRevoke(t) PROVE TellInv'
    BY <1>2, <2>3, BeginTells
  <2>4. ASSUME NEW t \in Txns, BeginErase(t) PROVE TellInv'
    BY <1>2, <2>4, BeginEraseTells
  <2>5. ASSUME NEW t \in Txns, Refuse(t) PROVE TellInv'
    BY <1>2, <2>5, ForgetStep DEF Refuse, rows
  <2>6. ASSUME NEW t \in Txns, Step(t) PROVE TellInv'
    <3>1. CASE InsertFix(t)
      BY <1>2, <3>1, InsertTells
    <3>2. CASE JudgeFix(t)
      BY <1>2, <3>2, JudgeTells
    <3>3. CASE CommitIngest(t)
      BY <1>2, <3>3, IngestTells
    <3>4. CASE CommitRevoke(t)
      BY <1>2, <3>4, RevokeTells
    <3>5. CASE CutFixes(t) \/ CutSnapshots(t) \/ CutDevices(t)
      BY <1>2, <3>5, WaitTells
    <3>6. CASE CommitErase(t)
      BY <1>2, <3>6, ErasedTells DEF CommitErase, At, Erasing
    <3>7. CASE CommitRemove(t)
      BY <1>2, <2>5, <3>7, ErasedTells DEF CommitRemove, At, Erasing
    <3>8. CASE DeadlockDetected(t)
      BY <2>5, <3>8 DEF DeadlockDetected
    <3> QED BY <2>6, <3>1, <3>2, <3>3, <3>4, <3>5, <3>6, <3>7, <3>8 DEF Step
  <2>7. ASSUME NEW t \in Txns, ConnectionLost(t) PROVE TellInv'
    BY <2>5, <2>7 DEF ConnectionLost
  <2> QED BY <1>2, <2>1, <2>2, <2>3, <2>4, <2>6, <2>7 DEF Next
<1> QED BY <1>1, <1>2, LocationInvariant, ConsentInvariant, PTL DEF Spec

\* The only handset of a child tells by turns that it entered a zone and that it left it,
\* however its reports are delayed, repeated or erased.
THEOREM ZonesAreLeftBeforeEntered == Spec => []CrossingsAlternate
<1>1. LocationInv /\ TellInv => CrossingsAlternate
  <2> SUFFICES ASSUME LocationInv, TellInv, NEW d \in Linked, Lone(d)
               PROVE  Alternates(CrossingsOf(ChildOf[d]))
    BY DEF CrossingsAlternate, Alternates
  <2>1. CrossingsOf(ChildOf[d]) = CrossingsBy(d)
    BY LoneTells DEF TellInv
  <2> QED BY <2>1 DEF TellInv, AllAlternate, Linked
<1> QED BY <1>1, LocationInvariant, TellInvariant, PTL
=============================================================================
