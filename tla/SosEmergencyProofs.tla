------------------------- MODULE SosEmergencyProofs -------------------------
(***************************************************************************)
(* For any number of children, devices, presses and transactions: one      *)
(* incident in flight per child, one incident per press, records that      *)
(* stand, and nothing raised by a device that was cut off.  All follow     *)
(* from SosInv: what a transaction checked of a row it holds stays true    *)
(* until it ends, and what it checked without a lock is checked again by   *)
(* the constraint its INSERT meets.                                        *)
(*                                                                         *)
(* No circle of waits: OrderInv, what a transaction holds says how far it  *)
(* is, and it waits only for one that is further.                          *)
(***************************************************************************)
EXTENDS SosEmergency, TLAPS

\* The variables of the transactions, and the rows, each in their domain.
TxnTypes ==
  /\ lock \in [Rows -> Txns \cup {None}]
  /\ op \in [Txns -> Operations \cup {"none"}]
  /\ pc \in [Txns -> Steps]
  /\ by \in [Txns -> Actors]
  /\ via \in [Txns -> Devices \cup {None}]
  /\ item \in [Txns -> Rows \cup {None}]
  /\ arg \in [Txns -> Reasons \cup Phones \cup {None}]
  /\ chosen \in [Txns -> SUBSET Contacts]

AlertRecord == [status : Statuses, child : Children \cup {None},
                press : Presses \cup {None}, fix : Devices \cup {None},
                ack : Actors, climber : Actors, closer : Actors,
                reason : Reasons \cup {None}]

ContactRecord == [status : {"absent", "live", "archived"}, phone : Phones \cup {None},
                  verification : Verifications, enabled : BOOLEAN]

RowTypes ==
  /\ alert \in [Alerts -> AlertRecord]
  /\ rung \in [Alerts -> SUBSET Contacts]
  /\ slot \in [Presses -> Alerts \cup {None}]
  /\ revoked \subseteq Devices
  /\ contact \in [Contacts -> ContactRecord]
  /\ failed \subseteq Operations

Requests == \A t \in Txns : Asks(t) /\ Holds(t)

LEMMA Parts == SosInv <=> (TxnTypes /\ RowTypes /\ RowFacts /\ Requests /\ OneAtATime)
<1> QED BY DEF SosInv, TypeOK, TxnTypes, RowTypes, AlertRecord, ContactRecord, Requests

LEMMA NextParts == SosInv' <=> (TxnTypes' /\ RowTypes' /\ RowFacts' /\ Requests' /\ OneAtATime')
<1> QED BY DEF SosInv, TypeOK, TxnTypes, RowTypes, AlertRecord, ContactRecord, Requests

\* The requests of the other transactions are what they were.
Apart(t) ==
  /\ \A u \in Txns \ {t} : /\ op'[u] = op[u] /\ pc'[u] = pc[u] /\ by'[u] = by[u]
                           /\ via'[u] = via[u] /\ item'[u] = item[u] /\ arg'[u] = arg[u]
  /\ \A u \in Txns \ {t}, x \in Rows : lock[x] = u => lock'[x] = u

\* A step of t leaves alone what the others hold.
Spares(t) ==
  /\ \A a \in Raised : a \in Raised'
  /\ \A a \in Raised, u \in Txns \ {t} : lock[a] = u => alert'[a] = alert[a]
  /\ \A p \in Presses, u \in Txns \ {t} : lock[p] = u => slot'[p] = slot[p]
  /\ \A d \in Devices, u \in Txns \ {t} : lock[d] = u => (d \in revoked' <=> d \in revoked)
  /\ \A c \in Live, u \in Txns \ {t} : lock[c] = u => c \in Live'
  /\ \A u \in Txns \ {t} : At(u, "fire", "commit") =>
       /\ \A a \in Open' : alert'[a].child # About[item[u]]
       /\ Fix[item[u]] \notin revoked'
  /\ \A u \in Txns \ {t} : Numbering(u) =>
       \A c \in Live' \ {item[u]} : contact'[c].phone # arg[u]

\* What the others asked and checked stays so.
LEMMA OthersKeep ==
  ASSUME TxnTypes, RowTypes, Requests, NEW t \in Txns, Apart(t), Spares(t),
         Asks(t)', Holds(t)'
  PROVE  Requests'
<1> SUFFICES ASSUME NEW u \in Txns, u # t PROVE Asks(u)' /\ Holds(u)'
  BY DEF Requests
<1>0. Asks(u) /\ Holds(u)
  BY DEF Requests
<1>1. /\ op'[u] = op[u] /\ pc'[u] = pc[u] /\ by'[u] = by[u]
      /\ via'[u] = via[u] /\ item'[u] = item[u] /\ arg'[u] = arg[u]
      /\ \A x \in Rows : lock[x] = u => lock'[x] = u
  BY DEF Apart
<1>2. Asks(u)'
  BY <1>0, <1>1 DEF Asks, Spares
<1>3. op'[u] = "fire" /\ pc'[u] \in {"lockDevice", "look", "insert", "commit"} =>
        lock'[item'[u]] = u /\ slot'[item'[u]] = None
  BY <1>0, <1>1 DEF Asks, Holds, Spares, Rows
<1>4. op'[u] = "fire" /\ pc'[u] \in {"look", "insert", "commit"} /\ via'[u] # None =>
        lock'[via'[u]] = u /\ Speaks(u)'
  BY <1>0, <1>1 DEF Holds, Spares, Rows, Speaks, TxnTypes
<1>5. At(u, "fire", "commit")' =>
        /\ \A a \in Open' : alert'[a].child # About[item'[u]]
        /\ Fix[item'[u]] \notin revoked'
  <2>1. At(u, "fire", "commit")' => At(u, "fire", "commit")
    BY <1>1 DEF At
  <2>2. At(u, "fire", "commit") => /\ \A a \in Open' : alert'[a].child # About[item[u]]
                                  /\ Fix[item[u]] \notin revoked'
    BY DEF Spares
  <2> QED BY <1>1, <2>1, <2>2
<1>6. At(u, "acknowledge", "commit")' =>
        lock'[item'[u]] = u /\ item'[u] \in Open' /\ alert'[item'[u]].ack = None
  BY <1>0, <1>1 DEF Asks, Holds, Spares, At, Rows, Open, Raised, Statuses
<1>7. op'[u] = "escalate" /\ pc'[u] \in {"look", "commit"} =>
        lock'[item'[u]] = u /\ alert'[item'[u]].status \in {"active", "acknowledged"}
  BY <1>0, <1>1 DEF Asks, Holds, Spares, Rows, Raised
<1>8. At(u, "resolve", "commit")' =>
        lock'[item'[u]] = u /\ item'[u] \in Open' /\ MayClose(u)'
  BY <1>0, <1>1 DEF Asks, Holds, Spares, At, Rows, Open, Raised, MayClose
<1>9. op'[u] = "revoke" /\ pc'[u] \in {"lockItem", "commit"} => lock'[item'[u]] = u
  BY <1>0, <1>1 DEF Asks, Holds, Rows
<1>10. Numbering(u)' => \A c \in Live' \ {item'[u]} : contact'[c].phone # arg'[u]
  <2>1. Numbering(u)' => Numbering(u)
    BY <1>1 DEF Numbering, At
  <2>2. Numbering(u) => \A c \in Live' \ {item[u]} : contact'[c].phone # arg[u]
    BY DEF Spares
  <2> QED BY <1>1, <2>1, <2>2
<1>11. op'[u] = "changeContact" /\ pc'[u] \in {"insert", "archive", "commit"} =>
         lock'[item'[u]] = u /\ item'[u] \in Live'
  BY <1>0, <1>1 DEF Asks, Holds, Spares, At, Rows
<1> QED BY <1>1, <1>2, <1>3, <1>4, <1>5, <1>6, <1>7, <1>8, <1>9, <1>10, <1>11 DEF Holds

\* Who is not about to commit a press or a number is in nobody's way.
LEMMA StillOneAtATime ==
  ASSUME OneAtATime, NEW t \in Txns, Apart(t),
         ~At(t, "fire", "commit")', ~Numbering(t)'
  PROVE  OneAtATime'
<1>1. \A u \in Txns : At(u, "fire", "commit")' =>
        At(u, "fire", "commit") /\ item'[u] = item[u]
  BY DEF Apart, At
<1>2. \A u \in Txns : Numbering(u)' => Numbering(u) /\ arg'[u] = arg[u]
  BY DEF Apart, Numbering, At
<1> QED BY <1>1, <1>2 DEF OneAtATime, Pressing

\* The rows a step may leave alone while it notes a failure.
Rested == UNCHANGED <<alert, rung, slot, revoked, contact>>

LEMMA RestedFacts ==
  ASSUME RowTypes, RowFacts, Rested, failed' \subseteq Operations
  PROVE  RowTypes' /\ RowFacts'
<1> QED BY DEF Rested, RowTypes, RowFacts, Raised, Open, Live, OneOpenIncident,
        OnePressOneIncident, NoErasedPosition, DeviceClosesOwnFalseAlarm, LivePhonesDistinct

LEMMA RestedSpares ==
  ASSUME RowTypes, Requests, NEW t \in Txns, Rested
  PROVE  Spares(t)
<1>1. Raised' = Raised /\ Open' = Open /\ Live' = Live
  BY DEF Rested, Raised, Open, Live
<1>2. \A u \in Txns : At(u, "fire", "commit") =>
        /\ \A a \in Open' : alert'[a].child # About[item[u]]
        /\ Fix[item[u]] \notin revoked'
  BY <1>1 DEF Rested, Requests, Holds
<1>3. \A u \in Txns : Numbering(u) =>
        \A c \in Live' \ {item[u]} : contact'[c].phone # arg[u]
  BY <1>1 DEF Rested, Requests, Holds
<1> QED BY <1>1, <1>2, <1>3 DEF Spares, Rested

-----------------------------------------------------------------------------
(* The ways a transaction moves.                                           *)

\* Ending lets go of its own locks only, and leaves nothing asked.
LEMMA EndStep ==
  ASSUME TxnTypes, OneAtATime, NEW t \in Txns, End(t)
  PROVE  /\ TxnTypes' /\ Apart(t) /\ Asks(t)' /\ Holds(t)' /\ OneAtATime'
<1>1. TxnTypes'
  BY DEF TxnTypes, End, Forget, Steps, Actors
<1>2. op'[t] = "none" /\ pc'[t] = "idle"
  BY DEF TxnTypes, End, Forget
<1>3. Asks(t)' /\ Holds(t)'
  BY <1>2 DEF Asks, Holds, Numbering, At
<1>4. Apart(t)
  BY RowsAssumption DEF TxnTypes, End, Forget, Apart
<1> QED BY <1>1, <1>2, <1>3, <1>4, StillOneAtATime DEF At, Numbering

\* A last step that writes, and leaves alone what the others hold.
LEMMA WriteStep ==
  ASSUME SosInv, NEW t \in Txns, End(t), RowTypes', RowFacts', Spares(t)
  PROVE  SosInv'
<1>1. TxnTypes /\ RowTypes /\ Requests /\ OneAtATime
  BY Parts
<1>2. TxnTypes' /\ Apart(t) /\ Asks(t)' /\ Holds(t)' /\ OneAtATime'
  BY <1>1, EndStep
<1>3. Requests'
  BY <1>1, <1>2, OthersKeep
<1> QED BY <1>2, <1>3, NextParts

LEMMA RefuseStep ==
  ASSUME SosInv, NEW t \in Txns, Refuse(t)
  PROVE  SosInv'
<1>1. RowTypes /\ RowFacts /\ Requests /\ Rested /\ failed' = failed /\ End(t)
  BY Parts DEF Refuse, rows, Rested
<1>2. RowTypes' /\ RowFacts' /\ Spares(t)
  BY <1>1, RestedFacts, RestedSpares DEF RowTypes
<1> QED BY <1>1, <1>2, WriteStep

LEMMA FailStep ==
  ASSUME SosInv, NEW t \in Txns, op[t] \in Operations, Fail(t)
  PROVE  SosInv'
<1>1. RowTypes /\ RowFacts /\ Requests /\ Rested /\ failed' \subseteq Operations /\ End(t)
  BY Parts DEF Fail, Rested, RowTypes
<1>2. RowTypes' /\ RowFacts' /\ Spares(t)
  BY <1>1, RestedFacts, RestedSpares
<1> QED BY <1>1, <1>2, WriteStep

\* Going on, with the locks it had and others that were free.
LEMMA GoStep ==
  ASSUME SosInv, NEW t \in Txns, NEW step \in Steps,
         lock' \in [Rows -> Txns \cup {None}],
         \A x \in Rows : lock'[x] = lock[x] \/ Free(t, x),
         chosen' \in [Txns -> SUBSET Contacts],
         pc' = [pc EXCEPT ![t] = step],
         UNCHANGED <<rows, op, by, via, item, arg>>,
         Holds(t)',
         step = "commit" => op[t] \notin {"fire", "addContact", "changeContact"}
  PROVE  SosInv'
<1>1. TxnTypes /\ RowTypes /\ RowFacts /\ Requests /\ OneAtATime /\ Rested /\ failed' = failed
  BY Parts DEF rows, Rested
<1>2. TxnTypes'
  BY <1>1 DEF TxnTypes
<1>3. Apart(t)
  BY <1>1, RowsAssumption DEF TxnTypes, Apart, Free
<1>4. RowTypes' /\ RowFacts' /\ Spares(t)
  BY <1>1, RestedFacts, RestedSpares DEF RowTypes
<1>5. Asks(t)'
  BY <1>1 DEF Requests, Asks, Rested, Raised
<1>6. OneAtATime'
  BY <1>1, <1>3, StillOneAtATime DEF At, Numbering, TxnTypes
<1>7. Requests'
  BY <1>1, <1>3, <1>4, <1>5, OthersKeep
<1> QED BY <1>2, <1>4, <1>6, <1>7, NextParts

LEMMA TakeStep ==
  ASSUME SosInv, NEW t \in Txns, NEW x \in Rows, NEW step \in Steps,
         Free(t, x), Take(t, x, step), Holds(t)',
         step = "commit" => op[t] \notin {"fire", "addContact", "changeContact"}
  PROVE  SosInv'
<1>1. TxnTypes
  BY Parts
<1>2. /\ lock' \in [Rows -> Txns \cup {None}]
      /\ \A y \in Rows : lock'[y] = lock[y] \/ Free(t, y)
      /\ chosen' \in [Txns -> SUBSET Contacts]
      /\ pc' = [pc EXCEPT ![t] = step]
      /\ UNCHANGED <<rows, op, by, via, item, arg>>
  BY <1>1 DEF Take, TxnTypes
<1> QED BY <1>2, GoStep

LEMMA GoToStep ==
  ASSUME SosInv, NEW t \in Txns, NEW step \in Steps, GoTo(t, step), Holds(t)',
         step = "commit" => op[t] \notin {"fire", "addContact", "changeContact"}
  PROVE  SosInv'
<1>1. TxnTypes
  BY Parts
<1>2. /\ lock' \in [Rows -> Txns \cup {None}]
      /\ \A y \in Rows : lock'[y] = lock[y] \/ Free(t, y)
      /\ chosen' \in [Txns -> SUBSET Contacts]
      /\ pc' = [pc EXCEPT ![t] = step]
      /\ UNCHANGED <<rows, op, by, via, item, arg>>
  BY <1>1 DEF GoTo, TxnTypes
<1> QED BY <1>2, GoStep

\* Beginning holds nothing.
LEMMA BeginStep ==
  ASSUME SosInv, NEW t \in Txns, NEW kind \in Operations,
         NEW step \in {"lockSlot", "lockDevice", "lockItem", "look"},
         NEW who \in Actors, NEW door \in Devices \cup {None},
         NEW row \in Rows \cup {None}, NEW a \in Reasons \cup Phones \cup {None},
         Begin(t, kind, step, who, door, row, a),
         Asks(t)',
         kind = "fire" => step = "lockSlot",
         kind \in {"escalate", "revoke"} => step # "look",
         kind = "revoke" => step # "lockItem"
  PROVE  SosInv'
<1>1. TxnTypes /\ RowTypes /\ RowFacts /\ Requests /\ OneAtATime /\ Rested /\ failed' = failed
      /\ lock' = lock
  BY Parts DEF Begin, rows, Rested
<1>2. TxnTypes'
  BY <1>1 DEF Begin, TxnTypes, Steps
<1>3. Apart(t)
  BY <1>1 DEF Begin, TxnTypes, Apart
<1>4. op'[t] = kind /\ pc'[t] = step
  BY <1>1 DEF Begin, TxnTypes
<1>5. Holds(t)'
  BY <1>4 DEF Holds, Numbering, At
<1>6. RowTypes' /\ RowFacts' /\ Spares(t)
  BY <1>1, RestedFacts, RestedSpares DEF RowTypes
<1>7. OneAtATime'
  BY <1>1, <1>3, <1>4, StillOneAtATime DEF At, Numbering
<1>8. Requests'
  BY <1>1, <1>3, <1>5, <1>6, OthersKeep
<1> QED BY <1>2, <1>6, <1>7, <1>8, NextParts

LEMMA BeginSomeStep ==
  ASSUME SosInv, NEW t \in Txns, BeginSome(t)
  PROVE  SosInv'
<1>0. TxnTypes /\ RowTypes
  BY Parts
<1> USE DEF Operations, Actors, Rows, Reasons
<1>1. ASSUME NEW kind \in Operations, NEW step, NEW who, NEW door, NEW row, NEW a,
             Begin(t, kind, step, who, door, row, a)
      PROVE  /\ op'[t] = kind /\ by'[t] = who /\ via'[t] = door
             /\ item'[t] = row /\ arg'[t] = a /\ Raised' = Raised
  BY <1>0, <1>1 DEF Begin, TxnTypes, rows, Raised
<1>2. CASE BeginFire(t)
  <2>1. PICK p \in Presses : Begin(t, "fire", "lockSlot", By[p], Via[p], p, None)
    BY <1>2 DEF BeginFire
  <2>2. Asks(t)'
    BY <2>1, <1>1 DEF Asks
  <2> QED BY <2>1, <2>2, BeginStep, PressAssumption
<1>3. CASE BeginAcknowledge(t)
  <2>1. PICK g \in Guardians, a \in Raised :
          Begin(t, "acknowledge", "lockItem", g, None, a, None)
    BY <1>3 DEF BeginAcknowledge
  <2>2. Asks(t)'
    BY <2>1, <1>1 DEF Asks
  <2> QED BY <2>1, <2>2, BeginStep DEF Raised
<1>4. CASE BeginEscalate(t)
  <2>1. PICK g \in Guardians, a \in Raised :
          Begin(t, "escalate", "lockItem", g, None, a, None)
    BY <1>4 DEF BeginEscalate
  <2>2. Asks(t)'
    BY <2>1, <1>1 DEF Asks
  <2> QED BY <2>1, <2>2, BeginStep DEF Raised
<1>5. CASE BeginResolve(t)
  <2>1. PICK a \in Raised, r \in Reasons :
          \/ \E g \in Guardians : Begin(t, "resolve", "lockItem", g, None, a, r)
          \/ \E d \in Devices, who \in Guardians \cup Devices :
               /\ who \in Devices => who = d
               /\ Begin(t, "resolve", "lockDevice", who, d, a, r)
    BY <1>5 DEF BeginResolve
  <2>2. CASE \E g \in Guardians : Begin(t, "resolve", "lockItem", g, None, a, r)
    <3>1. PICK g \in Guardians : Begin(t, "resolve", "lockItem", g, None, a, r)
      BY <2>2
    <3>2. Asks(t)'
      BY <3>1, <1>1, RowsAssumption DEF Asks
    <3> QED BY <3>1, <3>2, BeginStep DEF Raised
  <2>3. CASE \E d \in Devices, who \in Guardians \cup Devices :
               /\ who \in Devices => who = d
               /\ Begin(t, "resolve", "lockDevice", who, d, a, r)
    <3>1. PICK d \in Devices, who \in Guardians \cup Devices :
               /\ who \in Devices => who = d
               /\ Begin(t, "resolve", "lockDevice", who, d, a, r)
      BY <2>3
    <3>2. Asks(t)'
      BY <3>1, <1>1 DEF Asks
    <3> QED BY <3>1, <3>2, BeginStep DEF Raised
  <2> QED BY <2>1, <2>2, <2>3
<1>6. CASE BeginRevoke(t)
  <2>1. PICK g \in Guardians, d \in Devices :
          Begin(t, "revoke", "lockDevice", g, None, d, None)
    BY <1>6 DEF BeginRevoke
  <2>2. Asks(t)'
    BY <2>1, <1>1 DEF Asks
  <2> QED BY <2>1, <2>2, BeginStep
<1>7. CASE BeginAddContact(t)
  <2>1. PICK g \in Guardians, n \in Phones :
          Begin(t, "addContact", "look", g, None, None, n)
    BY <1>7 DEF BeginAddContact
  <2>2. Asks(t)'
    BY <2>1, <1>1 DEF Asks
  <2> QED BY <2>1, <2>2, BeginStep
<1>8. CASE BeginChangeContact(t)
  <2>1. PICK g \in Guardians, c \in Live, n \in Phones \cup {None} :
          Begin(t, "changeContact", "lockItem", g, None, c, n)
    BY <1>8 DEF BeginChangeContact
  <2>2. Asks(t)'
    BY <2>1, <1>1 DEF Asks, Live
  <2> QED BY <2>1, <2>2, BeginStep DEF Live
<1> QED BY <1>2, <1>3, <1>4, <1>5, <1>6, <1>7, <1>8 DEF BeginSome

-----------------------------------------------------------------------------
(* The steps that write.                                                   *)

\* A press that is stored: the only one of its child, by a device still trusted.
Raises(t, a) ==
  /\ a \notin Raised
  /\ alert' = [alert EXCEPT ![a] =
       [NoAlert EXCEPT !.status = "active", !.child = About[item[t]],
                       !.press = item[t], !.fix = Fix[item[t]]]]
  /\ slot' = [slot EXCEPT ![item[t]] = a]
  /\ item[t] \in Presses /\ slot[item[t]] = None /\ lock[item[t]] = t
  /\ \A b \in Open : alert[b].child # About[item[t]]
  /\ Fix[item[t]] \notin revoked
  /\ By[item[t]] \notin revoked
  /\ UNCHANGED <<rung, revoked, contact, failed>>

LEMMA CommitFireRaises ==
  ASSUME SosInv, NEW t \in Txns, CommitFire(t)
  PROVE  End(t) /\ At(t, "fire", "commit") /\ \E a \in Alerts : Raises(t, a)
<1>1. TxnTypes /\ Asks(t) /\ Holds(t)
  BY Parts DEF Requests
<1>2. End(t) /\ At(t, "fire", "commit") /\ UNCHANGED <<rung, revoked, contact, failed>>
  BY DEF CommitFire
<1>3. PICK a \in Unused :
        /\ alert' = [alert EXCEPT ![a] =
             [NoAlert EXCEPT !.status = "active", !.child = About[item[t]],
                             !.press = item[t], !.fix = Fix[item[t]]]]
        /\ slot' = [slot EXCEPT ![item[t]] = a]
  BY DEF CommitFire
<1>4. /\ item[t] \in Presses /\ slot[item[t]] = None /\ lock[item[t]] = t
      /\ by[t] = By[item[t]] /\ via[t] = Via[item[t]]
      /\ via[t] # None => Speaks(t)
      /\ \A b \in Open : alert[b].child # About[item[t]]
      /\ Fix[item[t]] \notin revoked
  BY <1>1, <1>2 DEF Asks, Holds, At
<1>5. By[item[t]] \notin revoked
  <2>1. CASE By[item[t]] \in Devices
    <3>1. Via[item[t]] = By[item[t]] /\ via[t] # None
      BY <1>4, <2>1, PressAssumption, RowsAssumption
    <3> QED BY <1>4, <2>1, <3>1 DEF Speaks
  <2>2. CASE By[item[t]] \notin Devices
    BY <2>2, Parts DEF RowTypes
  <2> QED BY <2>1, <2>2
<1>6. a \in Alerts /\ a \notin Raised
  BY <1>3 DEF Unused, Raised
<1> QED BY <1>2, <1>3, <1>4, <1>5, <1>6 DEF Raises

LEMMA RaiseStep ==
  ASSUME SosInv, NEW t \in Txns, End(t), At(t, "fire", "commit"),
         NEW a \in Alerts, Raises(t, a)
  PROVE  SosInv'
<1> DEFINE p == item[t]
<1>1. RowTypes /\ RowFacts /\ Requests /\ OneAtATime
  BY Parts
<1>2. /\ p \in Presses /\ About[p] \in Children /\ Fix[p] \in Devices \cup {None}
      /\ a \notin Raised /\ slot[p] = None
  BY PressAssumption DEF Raises
<1>3. /\ alert'[a] = [NoAlert EXCEPT !.status = "active", !.child = About[p],
                                     !.press = p, !.fix = Fix[p]]
      /\ \A b \in Alerts \ {a} : alert'[b] = alert[b]
      /\ slot'[p] = a /\ \A q \in Presses \ {p} : slot'[q] = slot[q]
      /\ UNCHANGED <<rung, revoked, contact, failed>>
  BY <1>1, <1>2 DEF Raises, RowTypes
<1>4. /\ alert'[a] \in AlertRecord
      /\ alert'[a].status = "active" /\ alert'[a].child = About[p] /\ alert'[a].press = p
      /\ alert'[a].fix = Fix[p] /\ alert'[a].climber = None /\ alert'[a].closer = None
  BY <1>2, <1>3 DEF NoAlert, AlertRecord, Statuses, OpenStatuses, Actors
<1>5. RowTypes'
  BY <1>1, <1>2, <1>3, <1>4 DEF RowTypes, Raises
<1>6. Raised' = Raised \cup {a} /\ Open' = Open \cup {a} /\ Live' = Live
  <2>1. \A b \in Alerts : b # a => alert'[b].status = alert[b].status
    BY <1>3
  <2>2. Raised' = Raised \cup {a}
    BY <1>4, <2>1 DEF Raised
  <2>3. Open' = Open \cup {a}
    BY <1>4, <2>1 DEF Open, OpenStatuses
  <2>4. Live' = Live
    BY <1>3 DEF Live
  <2> QED BY <2>2, <2>3, <2>4
<1>7. RowFacts'
  <2>1. /\ \A b \in Alerts : \/ b \notin Raised' /\ alert'[b] = NoAlert /\ rung'[b] = {}
                             \/ b \in Raised' /\ alert'[b].child \in Children
                                              /\ alert'[b].press \in Presses
        /\ \A b \in Raised' : alert'[b].status \in {"active", "acknowledged"} =>
             alert'[b].climber = None
    BY <1>1, <1>2, <1>3, <1>4, <1>6 DEF RowFacts, Raised
  <2>2. OneOpenIncident'
    BY <1>1, <1>3, <1>4, <1>6 DEF RowFacts, OneOpenIncident, Raises, Open
  <2>3. OnePressOneIncident'
    <3>1. \A b \in Raised : alert[b].press \in Presses /\ alert[b].press # p
      BY <1>1, <1>2, RowsAssumption DEF RowFacts, OnePressOneIncident, Raised
    <3>2. \A b \in Raised' : slot'[alert'[b].press] = b
      <4>1. \A b \in Raised : alert'[b] = alert[b] /\ slot[alert[b].press] = b
        BY <1>1, <1>2, <1>3 DEF RowFacts, OnePressOneIncident, Raised
      <4>2. \A b \in Raised : slot'[alert'[b].press] = b
        BY <1>3, <3>1, <4>1
      <4> QED BY <1>3, <1>4, <1>6, <4>2
    <3>3. ASSUME NEW q \in Presses, slot'[q] # None
          PROVE  slot'[q] \in Raised' /\ alert'[slot'[q]].press = q
      <4>1. CASE q = p
        BY <1>3, <1>4, <1>6, <4>1
      <4>2. CASE q # p
        <5>1. slot'[q] = slot[q] /\ slot[q] \in Raised /\ alert[slot[q]].press = q
          BY <1>1, <1>3, <3>3, <4>2 DEF RowFacts, OnePressOneIncident
        <5>2. slot[q] # a /\ slot[q] \in Alerts
          BY <1>2, <5>1 DEF Raised
        <5> QED BY <1>3, <1>6, <5>1, <5>2
      <4> QED BY <4>1, <4>2
    <3> QED BY <3>2, <3>3 DEF OnePressOneIncident
  <2>4. NoErasedPosition'
    BY <1>1, <1>3, <1>4, <1>6 DEF RowFacts, NoErasedPosition, Raises, Raised
  <2>5. DeviceClosesOwnFalseAlarm'
    <3>1. alert'[a].closer \notin Devices
      BY <1>4, RowsAssumption
    <3>2. \A b \in Raised : alert'[b] = alert[b]
      BY <1>2, <1>3 DEF Raised
    <3> QED BY <1>1, <1>6, <3>1, <3>2 DEF RowFacts, DeviceClosesOwnFalseAlarm
  <2>6. LivePhonesDistinct'
    BY <1>1, <1>3, <1>6 DEF RowFacts, LivePhonesDistinct
  <2> QED BY <2>1, <2>2, <2>3, <2>4, <2>5, <2>6 DEF RowFacts
<1>8. Spares(t)
  <2>1. \A u \in Txns \ {t} : lock[p] # u
    BY DEF Raises
  <2>2. \A u \in Txns \ {t} : At(u, "fire", "commit") => About[item[u]] # About[p]
    BY <1>1 DEF OneAtATime, Pressing
  <2>3. \A u \in Txns \ {t} : At(u, "fire", "commit") =>
          /\ \A b \in Open' : alert'[b].child # About[item[u]]
          /\ Fix[item[u]] \notin revoked'
    <3> SUFFICES ASSUME NEW u \in Txns \ {t}, At(u, "fire", "commit")
                 PROVE  /\ \A b \in Open' : alert'[b].child # About[item[u]]
                        /\ Fix[item[u]] \notin revoked'
      OBVIOUS
    <3>1. (\A b \in Open : alert[b].child # About[item[u]]) /\ Fix[item[u]] \notin revoked
      BY <1>1 DEF Requests, Holds
    <3>2. About[item[u]] # About[p]
      BY <2>2
    <3>3. \A b \in Open : alert'[b] = alert[b]
      BY <1>2, <1>3 DEF Open, Raised, OpenStatuses
    <3> QED BY <1>3, <1>4, <1>6, <3>1, <3>2, <3>3
  <2>4. \A u \in Txns \ {t} : Numbering(u) =>
          \A c \in Live' \ {item[u]} : contact'[c].phone # arg[u]
    BY <1>1, <1>3, <1>6 DEF Requests, Holds
  <2>5. \A b \in Raised : alert'[b] = alert[b]
    BY <1>2, <1>3 DEF Raised
  <2> QED BY <1>3, <1>6, <2>1, <2>3, <2>4, <2>5 DEF Spares
<1> QED BY <1>5, <1>7, <1>8, WriteStep

\* An incident in flight is written under its lock: it stays the same child's and press's,
\* and what it records stays.
Records(t, a) ==
  /\ a \in Open /\ lock[a] = t
  /\ alert' \in [Alerts -> AlertRecord] /\ rung' \in [Alerts -> SUBSET Contacts]
  /\ \A b \in Alerts \ {a} : alert'[b] = alert[b] /\ rung'[b] = rung[b]
  /\ alert'[a].child = alert[a].child /\ alert'[a].press = alert[a].press
  /\ alert'[a].fix = alert[a].fix
  /\ alert'[a].status \in OpenStatuses \cup {"resolved"}
  /\ alert'[a].status \in {"active", "acknowledged"} => alert'[a].climber = None
  /\ Rank[alert'[a].status] >= Rank[alert[a].status]
  /\ alert[a].ack # None => alert'[a].ack = alert[a].ack
  /\ alert[a].climber # None => alert'[a].climber = alert[a].climber /\ rung'[a] = rung[a]
  /\ \/ alert'[a].closer = alert[a].closer /\ alert'[a].reason = alert[a].reason
     \/ alert'[a].closer \in Devices =>
          ChildOf[alert'[a].closer] = alert[a].child /\ alert'[a].reason = "false_alarm"
  /\ UNCHANGED <<slot, revoked, contact, failed>>

LEMMA RecordStep ==
  ASSUME SosInv, NEW t \in Txns, End(t), NEW a \in Alerts, Records(t, a)
  PROVE  SosInv'
<1>1. RowTypes /\ RowFacts /\ Requests
  BY Parts
<1>2. RowTypes'
  BY <1>1 DEF Records, RowTypes
<1>3. Raised' = Raised /\ Open' \subseteq Open /\ Live' = Live /\ a \in Raised
  BY DEF Records, Raised, Open, Live, OpenStatuses
<1>4. RowFacts'
  <2>1. /\ \A b \in Alerts : \/ b \notin Raised' /\ alert'[b] = NoAlert /\ rung'[b] = {}
                             \/ b \in Raised' /\ alert'[b].child \in Children
                                              /\ alert'[b].press \in Presses
        /\ \A b \in Raised' : alert'[b].status \in {"active", "acknowledged"} =>
             alert'[b].climber = None
    BY <1>1, <1>3 DEF RowFacts, Raised, Records
  <2>2. OneOpenIncident'
    BY <1>1, <1>3 DEF RowFacts, OneOpenIncident, Records, Open
  <2>3. OnePressOneIncident'
    BY <1>1, <1>3 DEF RowFacts, OnePressOneIncident, Records, Raised
  <2>4. NoErasedPosition'
    BY <1>1, <1>3 DEF RowFacts, NoErasedPosition, Records, Raised
  <2>5. DeviceClosesOwnFalseAlarm'
    BY <1>1, <1>3 DEF RowFacts, DeviceClosesOwnFalseAlarm, Records, Raised
  <2>6. LivePhonesDistinct'
    BY <1>1, <1>3 DEF RowFacts, LivePhonesDistinct, Records
  <2> QED BY <2>1, <2>2, <2>3, <2>4, <2>5, <2>6 DEF RowFacts
<1>5. Spares(t)
  <2>1. \A u \in Txns \ {t}, b \in Raised : lock[b] = u => alert'[b] = alert[b]
    BY DEF Records, Raised
  <2>2. \A u \in Txns \ {t} : At(u, "fire", "commit") =>
          /\ \A b \in Open' : alert'[b].child # About[item[u]]
          /\ Fix[item[u]] \notin revoked'
    BY <1>1, <1>3 DEF Requests, Holds, Records, Open
  <2>3. \A u \in Txns \ {t} : Numbering(u) =>
          \A c \in Live' \ {item[u]} : contact'[c].phone # arg[u]
    BY <1>1, <1>3 DEF Requests, Holds, Records
  <2> QED BY <1>3, <2>1, <2>2, <2>3 DEF Spares, Records
<1> QED BY <1>2, <1>4, <1>5, WriteStep

\* A revocation takes the references to the positions of the device, under their locks.
Erases(t) ==
  /\ item[t] \in Devices /\ lock[item[t]] = t
  /\ \A a \in Naming(item[t]) : lock[a] = t
  /\ \A u \in Pressing : Fix[item[u]] # item[t]
  /\ revoked' = revoked \cup {item[t]}
  /\ alert' = [a \in Alerts |-> IF a \in Naming(item[t]) THEN [alert[a] EXCEPT !.fix = None]
                                                         ELSE alert[a]]
  /\ UNCHANGED <<rung, slot, contact, failed>>

LEMMA EraseStep ==
  ASSUME SosInv, NEW t \in Txns, End(t), Erases(t)
  PROVE  SosInv'
<1> DEFINE d == item[t]
<1>1. RowTypes /\ RowFacts /\ Requests
  BY Parts
<1>2. \A a \in Alerts :
        /\ alert'[a] \in AlertRecord
        /\ alert'[a].status = alert[a].status /\ alert'[a].child = alert[a].child
        /\ alert'[a].press = alert[a].press /\ alert'[a].climber = alert[a].climber
        /\ alert'[a].closer = alert[a].closer /\ alert'[a].reason = alert[a].reason
        /\ a \in Naming(d) => alert'[a].fix = None
        /\ a \notin Naming(d) => alert'[a] = alert[a]
  BY <1>1 DEF Erases, RowTypes, AlertRecord
<1>3. RowTypes'
  BY <1>1, <1>2 DEF Erases, RowTypes
<1>4. Raised' = Raised /\ Open' = Open /\ Live' = Live
  BY <1>2 DEF Erases, Raised, Open, Live
<1>5. RowFacts'
  <2>1. /\ \A b \in Alerts : \/ b \notin Raised' /\ alert'[b] = NoAlert /\ rung'[b] = {}
                             \/ b \in Raised' /\ alert'[b].child \in Children
                                              /\ alert'[b].press \in Presses
        /\ \A b \in Raised' : alert'[b].status \in {"active", "acknowledged"} =>
             alert'[b].climber = None
    BY <1>1, <1>2, <1>4 DEF RowFacts, Raised, Naming, Erases
  <2>2. OneOpenIncident'
    BY <1>1, <1>2, <1>4 DEF RowFacts, OneOpenIncident, Open
  <2>3. OnePressOneIncident'
    BY <1>1, <1>2, <1>4 DEF RowFacts, OnePressOneIncident, Erases, Raised
  <2>4. NoErasedPosition'
    <3>1. None \notin revoked'
      BY <1>3, RowsAssumption DEF RowTypes
    <3> QED BY <1>1, <1>2, <1>4, <3>1 DEF RowFacts, NoErasedPosition, Erases, Naming, Raised
  <2>5. DeviceClosesOwnFalseAlarm'
    BY <1>1, <1>2, <1>4 DEF RowFacts, DeviceClosesOwnFalseAlarm, Raised
  <2>6. LivePhonesDistinct'
    BY <1>1, <1>4 DEF RowFacts, LivePhonesDistinct, Erases
  <2> QED BY <2>1, <2>2, <2>3, <2>4, <2>5, <2>6 DEF RowFacts
<1>6. Spares(t)
  <2>1. \A u \in Txns \ {t}, b \in Raised : lock[b] = u => alert'[b] = alert[b]
    BY <1>2 DEF Erases, Raised
  <2>2. \A u \in Txns \ {t} : At(u, "fire", "commit") =>
          /\ \A b \in Open' : alert'[b].child # About[item[u]]
          /\ Fix[item[u]] \notin revoked'
    BY <1>1, <1>2, <1>4 DEF Requests, Holds, Erases, Open, Pressing
  <2>3. \A u \in Txns \ {t} : Numbering(u) =>
          \A c \in Live' \ {item[u]} : contact'[c].phone # arg[u]
    BY <1>1, <1>4 DEF Requests, Holds, Erases
  <2>4. \A e \in Devices, u \in Txns \ {t} : lock[e] = u => (e \in revoked' <=> e \in revoked)
    BY DEF Erases
  <2> QED BY <1>4, <2>1, <2>2, <2>3, <2>4 DEF Spares, Erases
<1> QED BY <1>3, <1>5, <1>6, WriteStep

\* A contact that is written is new or locked, and its number is nobody else's.
LEMMA ContactStep ==
  ASSUME SosInv, NEW t \in Txns, End(t), NEW c \in Contacts, c \notin Live \/ lock[c] = t,
         NEW k \in ContactRecord, contact' = [contact EXCEPT ![c] = k],
         k.status = "live" =>
           /\ \A d \in Live \ {c} : contact[d].phone # k.phone
           /\ \A u \in Txns \ {t} : Numbering(u) => arg[u] # k.phone,
         UNCHANGED <<alert, rung, slot, revoked, failed>>
  PROVE  SosInv'
<1>1. RowTypes /\ RowFacts /\ Requests
  BY Parts
<1>2. RowTypes'
  BY <1>1 DEF RowTypes
<1>3. /\ Raised' = Raised /\ Open' = Open
      /\ contact'[c] = k /\ \A d \in Contacts \ {c} : contact'[d] = contact[d]
  BY <1>1 DEF Raised, Open, RowTypes
<1>4. /\ \A d \in Live' : d # c => d \in Live
      /\ \A d \in Live : d # c => d \in Live'
      /\ c \in Live' => k.status = "live"
  BY <1>3 DEF Live
<1>5. RowFacts'
  <2>1. LivePhonesDistinct'
    BY <1>1, <1>3, <1>4 DEF RowFacts, LivePhonesDistinct, Live
  <2> QED BY <1>1, <1>3, <2>1 DEF RowFacts, OneOpenIncident, OnePressOneIncident,
            NoErasedPosition, DeviceClosesOwnFalseAlarm
<1>6. Spares(t)
  <2>1. \A u \in Txns \ {t} : At(u, "fire", "commit") =>
          /\ \A b \in Open' : alert'[b].child # About[item[u]]
          /\ Fix[item[u]] \notin revoked'
    BY <1>1, <1>3 DEF Requests, Holds
  <2>2. \A u \in Txns \ {t} : Numbering(u) =>
          \A d \in Live' \ {item[u]} : contact'[d].phone # arg[u]
    BY <1>1, <1>3, <1>4 DEF Requests, Holds, Live
  <2>3. \A d \in Live, u \in Txns \ {t} : lock[d] = u => d \in Live'
    BY <1>4
  <2> QED BY <1>3, <2>1, <2>2, <2>3 DEF Spares
<1> QED BY <1>2, <1>5, <1>6, WriteStep

-----------------------------------------------------------------------------
(* The steps that lock, look and insert.                                   *)

\* Taking x: the others keep what they hold, nothing is written.
LEMMA Took ==
  ASSUME SosInv, NEW t \in Txns, NEW x \in Rows, NEW step \in Steps, Take(t, x, step)
  PROVE  /\ lock'[x] = t /\ \A y \in Rows : lock[y] = t => lock'[y] = t
         /\ pc'[t] = step
         /\ UNCHANGED <<rows, op, by, via, item, arg, chosen>>
<1> QED BY Parts DEF Take, TxnTypes

LEMMA Gone ==
  ASSUME SosInv, NEW t \in Txns, NEW step \in Steps, GoTo(t, step)
  PROVE  pc'[t] = step /\ UNCHANGED <<rows, lock, op, by, via, item, arg, chosen>>
<1> QED BY Parts DEF GoTo, TxnTypes

LEMMA LockStep ==
  ASSUME SosInv, NEW t \in Txns, NEW x \in Rows, NEW step \in Steps, NEW ok \in BOOLEAN,
         LockAndCheck(t, x, ok, step),
         ok /\ Take(t, x, step) => Holds(t)',
         step = "commit" => op[t] \notin {"fire", "addContact", "changeContact"}
  PROVE  SosInv'
<1>1. CASE ok /\ Free(t, x) /\ Take(t, x, step)
  BY <1>1, TakeStep
<1>2. CASE Refuse(t)
  BY <1>2, RefuseStep
<1> QED BY <1>1, <1>2 DEF LockAndCheck

LEMMA FireStep ==
  ASSUME SosInv, NEW t \in Txns,
         FireLocksSlot(t) \/ FireLocksDevice(t) \/ FireLooks(t)
  PROVE  SosInv'
<1>0. TxnTypes /\ Asks(t) /\ Holds(t)
  BY Parts DEF Requests
<1> USE DEF Steps
<1>1. CASE FireLocksSlot(t)
  <2> DEFINE next == IF via[t] = None THEN "look" ELSE "lockDevice"
  <2>1. /\ op[t] = "fire" /\ item[t] \in Presses
        /\ LockAndCheck(t, item[t], slot[item[t]] = None, next)
    BY <1>0, <1>1 DEF FireLocksSlot, At, Asks
  <2>2. item[t] \in Rows
    BY <2>1 DEF Rows
  <2>3. ASSUME slot[item[t]] = None, Take(t, item[t], next) PROVE Holds(t)'
    <3>1. /\ lock'[item[t]] = t /\ pc'[t] = next /\ op'[t] = "fire"
          /\ UNCHANGED <<rows, via, item>>
      BY <2>1, <2>2, <2>3, Took
    <3> QED BY <2>3, <3>1 DEF Holds, Numbering, At, rows
  <2>4. next \in Steps /\ next # "commit"
    OBVIOUS
  <2> HIDE DEF next
  <2> QED BY <2>1, <2>2, <2>3, <2>4, LockStep
<1>2. CASE FireLocksDevice(t)
  <2>1. op[t] = "fire" /\ pc[t] = "lockDevice" /\ LockAndCheck(t, via[t], Speaks(t), "look")
    BY <1>2 DEF FireLocksDevice, At
  <2>2. CASE via[t] \in Rows
    <3>1. ASSUME Speaks(t), Take(t, via[t], "look") PROVE Holds(t)'
      <4>1. /\ lock'[via[t]] = t /\ pc'[t] = "look" /\ op'[t] = "fire"
            /\ \A y \in Rows : lock[y] = t => lock'[y] = t
            /\ UNCHANGED <<rows, by, via, item>>
        BY <2>1, <2>2, <3>1, Took
      <4>2. lock[item[t]] = t /\ slot[item[t]] = None /\ item[t] \in Rows
        BY <1>0, <2>1 DEF Holds, Asks, Rows
      <4> QED BY <3>1, <4>1, <4>2 DEF Holds, Numbering, At, rows, Speaks
    <3> QED BY <2>1, <2>2, <3>1, LockStep DEF Speaks
  <2>3. CASE via[t] \notin Rows
    <3>1. via[t] = None
      BY <1>0, <2>3 DEF TxnTypes, Rows
    <3>2. Refuse(t) \/ Take(t, None, "look")
      BY <2>1, <3>1 DEF LockAndCheck
    <3>3. CASE Take(t, None, "look")
      <4>1. lock' = lock
        BY <1>0, <3>3, RowsAssumption DEF Take, TxnTypes, Rows
      <4>2. GoTo(t, "look")
        BY <3>3, <4>1 DEF Take, GoTo
      <4>3. pc'[t] = "look" /\ UNCHANGED <<rows, lock, op, by, via, item>>
        BY <4>2, Gone
      <4>4. lock[item[t]] = t /\ slot[item[t]] = None
        BY <1>0, <2>1 DEF Holds
      <4>5. Holds(t)'
        BY <2>1, <3>1, <4>3, <4>4 DEF Holds, Numbering, At, rows
      <4> QED BY <4>2, <4>5, GoToStep
    <3> QED BY <3>2, <3>3, RefuseStep
  <2> QED BY <2>2, <2>3
<1>3. CASE FireLooks(t)
  <2>1. op[t] = "fire" /\ pc[t] = "look"
    BY <1>3 DEF FireLooks, At
  <2>2. CASE Refuse(t)
    BY <2>2, RefuseStep
  <2>3. CASE GoTo(t, "insert")
    <3>1. pc'[t] = "insert" /\ UNCHANGED <<rows, lock, op, by, via, item>>
      BY <2>3, Gone
    <3>2. Holds(t)'
      BY <1>0, <2>1, <3>1 DEF Holds, Numbering, At, rows, Speaks
    <3> QED BY <2>3, <3>2, GoToStep
  <2> QED BY <1>3, <2>2, <2>3 DEF FireLooks
<1> QED BY <1>1, <1>2, <1>3

\* The row of a press that may commit: no incident of the child is in flight, and no
\* other press of the child has its row.
LEMMA InsertAlertStep ==
  ASSUME SosInv, NEW t \in Txns, InsertAlert(t)
  PROVE  SosInv'
<1>0. TxnTypes /\ RowTypes /\ RowFacts /\ Requests /\ OneAtATime /\ Asks(t) /\ Holds(t)
  BY Parts DEF Requests
<1>1. op[t] = "fire" /\ pc[t] = "insert" /\ PressingFor(About[item[t]]) = {}
  BY DEF InsertAlert, At
<1>2. CASE Refuse(t)
  BY <1>2, RefuseStep
<1>3. CASE Fail(t)
  BY <1>1, <1>3, FailStep DEF Operations
<1>4. CASE /\ OpenFor(About[item[t]]) = {} /\ Fix[item[t]] \notin revoked
           /\ GoTo(t, "commit")
  <2>1. pc'[t] = "commit" /\ UNCHANGED <<rows, lock, op, by, via, item, arg, chosen>>
    BY <1>4, Gone DEF Steps
  <2>2. Rested /\ failed' = failed /\ Open' = Open
    BY <2>1 DEF rows, Rested, Open
  <2>3. TxnTypes' /\ Apart(t)
    BY <1>0, <1>4 DEF GoTo, TxnTypes, Steps, Apart
  <2>4. Asks(t)'
    BY <1>0, <2>1, <2>2 DEF Asks, Rested, Raised
  <2>5. \A a \in Open : alert[a].child # About[item[t]]
    BY <1>4 DEF OpenFor
  <2>6. Holds(t)'
    BY <1>0, <1>1, <1>4, <2>1, <2>2, <2>5 DEF Holds, Numbering, At, Rested, Speaks
  <2>7. RowTypes' /\ RowFacts' /\ Spares(t)
    BY <1>0, <2>2, RestedFacts, RestedSpares DEF RowTypes
  <2>8. Requests'
    BY <1>0, <2>3, <2>4, <2>6, <2>7, OthersKeep
  <2>9. OneAtATime'
    <3>1. \A u \in Txns : u # t /\ At(u, "fire", "commit") => About[item[u]] # About[item[t]]
      BY <1>1 DEF PressingFor, Pressing
    <3>2. \A u \in Txns : u # t /\ At(u, "fire", "commit")' => At(u, "fire", "commit")
      BY <2>3 DEF Apart, At
    <3>3. \A u \in Txns : Numbering(u)' => Numbering(u)
      BY <1>1, <2>1, <2>3 DEF Apart, Numbering, At
    <3>4. \A u, v \in Txns : /\ u # v
                             /\ At(u, "fire", "commit")' /\ At(v, "fire", "commit")'
                             => About[item[u]] # About[item[v]]
      BY <1>0, <3>1, <3>2 DEF OneAtATime, Pressing
    <3>5. \A u, v \in Txns : Numbering(u)' /\ Numbering(v)' /\ arg[u] = arg[v] => u = v
      BY <1>0, <3>3 DEF OneAtATime
    <3>6. \A u, v \in Pressing' : About[item'[u]] = About[item'[v]] => u = v
      BY <2>1, <3>4 DEF Pressing
    <3> QED BY <2>1, <3>5, <3>6 DEF OneAtATime
  <2> QED BY <2>3, <2>7, <2>8, <2>9, NextParts
<1> QED BY <1>2, <1>3, <1>4 DEF InsertAlert

\* A number that may commit: no live contact has it, and no other uncommitted row does.
LEMMA NumberStep ==
  ASSUME SosInv, NEW t \in Txns, op[t] \in {"addContact", "changeContact"},
         pc[t] = "insert", GoTo(t, "commit"),
         arg[t] # None => Writing(arg[t]) = {} /\ Holders(arg[t]) \ {item[t]} = {}
  PROVE  SosInv'
<1>0. TxnTypes /\ RowTypes /\ RowFacts /\ Requests /\ OneAtATime /\ Asks(t) /\ Holds(t)
  BY Parts DEF Requests
<1>1. pc'[t] = "commit" /\ UNCHANGED <<rows, lock, op, by, via, item, arg, chosen>>
  BY Gone DEF Steps
<1>2. Rested /\ failed' = failed /\ Live' = Live
  BY <1>1 DEF rows, Rested, Live
<1>3. TxnTypes' /\ Apart(t)
  BY <1>0 DEF GoTo, TxnTypes, Steps, Apart
<1>4. Asks(t)'
  BY <1>0, <1>1, <1>2 DEF Asks, Rested, Raised
<1>5. Numbering(t)' => \A c \in Live \ {item[t]} : contact[c].phone # arg[t]
  <2>1. Numbering(t)' => arg[t] # None
    BY <1>0, <1>1, RowsAssumption DEF Numbering, At, Asks
  <2> QED BY <2>1 DEF Holders
<1>6. Holds(t)'
  <2>1. op[t] = "changeContact" => lock[item[t]] = t /\ item[t] \in Live
    BY <1>0 DEF Holds
  <2> QED BY <1>1, <1>2, <1>5, <2>1 DEF Holds, At, Rested
<1>7. RowTypes' /\ RowFacts' /\ Spares(t)
  BY <1>0, <1>2, RestedFacts, RestedSpares DEF RowTypes
<1>8. Requests'
  BY <1>0, <1>3, <1>4, <1>6, <1>7, OthersKeep
<1>9. OneAtATime'
  <2>1. \A u \in Txns : u # t /\ Numbering(u)' => Numbering(u)
    BY <1>3 DEF Apart, Numbering, At
  <2>2. Numbering(t)' => \A u \in Txns : u # t /\ Numbering(u) => arg[u] # arg[t]
    BY <1>0, <1>1, RowsAssumption DEF Numbering, At, Asks, Writing
  <2>3. \A u \in Txns : At(u, "fire", "commit")' => At(u, "fire", "commit")
    BY <1>1, <1>3 DEF Apart, At
  <2>4. \A u, v \in Txns : Numbering(u)' /\ Numbering(v)' /\ arg[u] = arg[v] => u = v
    BY <1>0, <2>1, <2>2 DEF OneAtATime
  <2>5. \A u, v \in Pressing' : About[item[u]] = About[item[v]] => u = v
    BY <1>0, <2>3 DEF OneAtATime, Pressing
  <2> QED BY <1>1, <2>4, <2>5 DEF OneAtATime
<1> QED BY <1>3, <1>7, <1>8, <1>9, NextParts

LEMMA ContactNumberStep ==
  ASSUME SosInv, NEW t \in Txns, InsertContact(t) \/ UpdateContact(t)
  PROVE  SosInv'
<1>0. Asks(t)
  BY Parts DEF Requests
<1>1. op[t] \in {"addContact", "changeContact"} /\ pc[t] = "insert"
  BY DEF InsertContact, UpdateContact, At
<1>2. CASE Fail(t)
  BY <1>1, <1>2, FailStep DEF Operations
<1>3. CASE ~Fail(t)
  <2>1. /\ GoTo(t, "commit")
        /\ arg[t] # None => Writing(arg[t]) = {} /\ Holders(arg[t]) \ {item[t]} = {}
    BY <1>3 DEF InsertContact, UpdateContact
  <2> QED BY <1>1, <2>1, NumberStep
<1> QED BY <1>2, <1>3

\* The other steps that write nothing.
LEMMA LookStep ==
  ASSUME SosInv, NEW t \in Txns,
         \/ AcknowledgeLocks(t) \/ EscalateLocks(t) \/ ReadLadder(t)
         \/ ResolveLocksDevice(t) \/ ResolveLocks(t)
         \/ RevokeLocksDevice(t) \/ RevokeLocksAlerts(t)
         \/ CountContacts(t) \/ ChangeLocks(t)
  PROVE  SosInv'
<1>0. TxnTypes /\ RowTypes /\ Asks(t) /\ Holds(t)
  BY Parts DEF Requests
<1> USE DEF Steps
<1>1. ASSUME NEW step \in Steps, Take(t, item[t], step), item[t] \in Rows
      PROVE  /\ lock'[item[t]] = t /\ pc'[t] = step
             /\ UNCHANGED <<rows, op, by, via, item, arg>>
  BY <1>1, Took
<1>2. CASE AcknowledgeLocks(t)
  <2> DEFINE ok == item[t] \in Open /\ alert[item[t]].ack = None
  <2>1. op[t] = "acknowledge" /\ LockAndCheck(t, item[t], ok, "commit") /\ item[t] \in Rows
    BY <1>0, <1>2 DEF AcknowledgeLocks, At, Asks, Raised, Rows
  <2>2. ASSUME ok, Take(t, item[t], "commit") PROVE Holds(t)'
    BY <1>1, <2>1, <2>2 DEF Holds, Numbering, At, rows, Open
  <2>3. ok \in BOOLEAN
    OBVIOUS
  <2> HIDE DEF ok
  <2> QED BY <2>1, <2>2, <2>3, LockStep
<1>3. CASE EscalateLocks(t)
  <2> DEFINE ok == alert[item[t]].status \in {"active", "acknowledged"}
  <2>1. op[t] = "escalate" /\ LockAndCheck(t, item[t], ok, "look") /\ item[t] \in Rows
    BY <1>0, <1>3 DEF EscalateLocks, At, Asks, Raised, Rows
  <2>2. ASSUME ok, Take(t, item[t], "look") PROVE Holds(t)'
    BY <1>1, <2>1, <2>2 DEF Holds, Numbering, At, rows
  <2>3. ok \in BOOLEAN
    OBVIOUS
  <2> HIDE DEF ok
  <2> QED BY <2>1, <2>2, <2>3, LockStep
<1>4. CASE ReadLadder(t)
  <2>1. /\ op[t] = "escalate" /\ pc[t] = "look"
        /\ chosen' = [chosen EXCEPT ![t] = Eligible]
        /\ pc' = [pc EXCEPT ![t] = "commit"]
        /\ UNCHANGED <<rows, lock, op, by, via, item, arg>>
    BY <1>4 DEF ReadLadder, At
  <2>2. chosen' \in [Txns -> SUBSET Contacts]
    BY <1>0, <2>1 DEF TxnTypes, Eligible, Live
  <2>3. Holds(t)'
    BY <1>0, <2>1 DEF Holds, Numbering, At, rows, TxnTypes
  <2>4. lock' \in [Rows -> Txns \cup {None}] /\ \A x \in Rows : lock'[x] = lock[x]
    BY <1>0, <2>1 DEF TxnTypes
  <2> QED BY <2>1, <2>2, <2>3, <2>4, GoStep
<1>5. CASE ResolveLocksDevice(t)
  <2>1. /\ op[t] = "resolve" /\ LockAndCheck(t, via[t], Speaks(t), "lockItem")
    BY <1>5 DEF ResolveLocksDevice, At
  <2>2. CASE via[t] \in Rows
    <3>1. ASSUME Take(t, via[t], "lockItem") PROVE Holds(t)'
      <4>1. pc'[t] = "lockItem" /\ op'[t] = "resolve"
        BY <2>1, <2>2, <3>1, Took
      <4> QED BY <4>1 DEF Holds, Numbering, At
    <3> QED BY <2>1, <2>2, <3>1, LockStep DEF Speaks
  <2>3. CASE via[t] \notin Rows
    <3>1. via[t] = None
      BY <1>0, <2>3 DEF TxnTypes, Rows
    <3>2. Refuse(t) \/ Take(t, None, "lockItem")
      BY <2>1, <3>1 DEF LockAndCheck
    <3>3. CASE Take(t, None, "lockItem")
      <4>1. lock' = lock
        BY <1>0, <3>3, RowsAssumption DEF Take, TxnTypes, Rows
      <4>2. GoTo(t, "lockItem")
        BY <3>3, <4>1 DEF Take, GoTo
      <4>3. pc'[t] = "lockItem" /\ op'[t] = "resolve"
        BY <2>1, <4>2, Gone
      <4>4. Holds(t)'
        BY <4>3 DEF Holds, Numbering, At
      <4> QED BY <4>2, <4>4, GoToStep
    <3> QED BY <3>2, <3>3, RefuseStep
  <2> QED BY <2>2, <2>3
<1>6. CASE ResolveLocks(t)
  <2> DEFINE ok == MayClose(t) /\ item[t] \in Open
  <2>1. op[t] = "resolve" /\ LockAndCheck(t, item[t], ok, "commit") /\ item[t] \in Rows
    BY <1>0, <1>6 DEF ResolveLocks, At, Asks, Raised, Rows
  <2>2. ASSUME ok, Take(t, item[t], "commit") PROVE Holds(t)'
    BY <1>1, <2>1, <2>2 DEF Holds, Numbering, At, rows, Open, MayClose
  <2>3. ok \in BOOLEAN
    BY DEF MayClose
  <2> HIDE DEF ok
  <2> QED BY <2>1, <2>2, <2>3, LockStep
<1>7. CASE RevokeLocksDevice(t)
  <2> DEFINE ok == item[t] \notin revoked
  <2>1. op[t] = "revoke" /\ LockAndCheck(t, item[t], ok, "lockItem") /\ item[t] \in Rows
    BY <1>0, <1>7 DEF RevokeLocksDevice, At, Asks, Rows
  <2>2. ASSUME ok, Take(t, item[t], "lockItem") PROVE Holds(t)'
    BY <1>1, <2>1, <2>2 DEF Holds, Numbering, At
  <2>3. ok \in BOOLEAN
    OBVIOUS
  <2> HIDE DEF ok
  <2> QED BY <2>1, <2>2, <2>3, LockStep
<1>8. CASE RevokeLocksAlerts(t)
  <2>1. /\ op[t] = "revoke" /\ pc[t] = "lockItem"
        /\ \A a \in Naming(item[t]) : Free(t, a)
        /\ lock' = [x \in Rows |-> IF x \in Naming(item[t]) THEN t ELSE lock[x]]
        /\ pc' = [pc EXCEPT ![t] = "commit"]
        /\ UNCHANGED <<rows, op, by, via, item, arg, chosen>>
    BY <1>8 DEF RevokeLocksAlerts, At
  <2>2. /\ lock' \in [Rows -> Txns \cup {None}]
        /\ \A x \in Rows : lock'[x] = lock[x] \/ Free(t, x)
        /\ chosen' \in [Txns -> SUBSET Contacts]
    BY <1>0, <2>1 DEF TxnTypes
  <2>3. item[t] \in Rows /\ lock[item[t]] = t
    BY <1>0, <2>1 DEF Asks, Holds, Rows
  <2>4. Holds(t)'
    BY <2>1, <2>3 DEF Holds, Numbering, At
  <2> QED BY <2>1, <2>2, <2>4, GoStep
<1>9. CASE CountContacts(t)
  <2>1. op[t] = "addContact"
    BY <1>9 DEF CountContacts, At
  <2>2. CASE Refuse(t)
    BY <2>2, RefuseStep
  <2>3. CASE GoTo(t, "insert")
    <3>1. pc'[t] = "insert" /\ op'[t] = "addContact"
      BY <2>1, <2>3, Gone
    <3>2. Holds(t)'
      BY <3>1 DEF Holds, Numbering, At
    <3> QED BY <2>3, <3>2, GoToStep
  <2> QED BY <1>9, <2>2, <2>3 DEF CountContacts
<1>10. CASE ChangeLocks(t)
  <2> DEFINE ok == item[t] \in Live
  <2>1. op[t] = "changeContact" /\ item[t] \in Rows
    BY <1>0, <1>10 DEF ChangeLocks, At, Asks, Rows
  <2>2. PICK step \in {"insert", "archive"} : LockAndCheck(t, item[t], ok, step)
    BY <1>10 DEF ChangeLocks
  <2>3. ASSUME ok, Take(t, item[t], step) PROVE Holds(t)'
    BY <1>1, <2>1, <2>3 DEF Holds, Numbering, At, rows, Live
  <2>4. ok \in BOOLEAN
    OBVIOUS
  <2> HIDE DEF ok
  <2> QED BY <2>1, <2>2, <2>3, <2>4, LockStep
<1> QED BY <1>2, <1>3, <1>4, <1>5, <1>6, <1>7, <1>8, <1>9, <1>10

-----------------------------------------------------------------------------
(* Every step.                                                             *)

LEMMA Ranks ==
  /\ Rank["absent"] = 0 /\ Rank["active"] = 1 /\ Rank["acknowledged"] = 2
  /\ Rank["escalating"] = 3 /\ Rank["resolved"] = 4
<1> QED BY DEF Rank

LEMMA AcknowledgeRecords ==
  ASSUME SosInv, NEW t \in Txns, CommitAcknowledge(t)
  PROVE  End(t) /\ \E a \in Alerts : Records(t, a)
<1> DEFINE a == item[t]
<1>1. RowTypes /\ RowFacts /\ Holds(t)
  BY Parts DEF Requests
<1>2. End(t) /\ At(t, "acknowledge", "commit") /\ UNCHANGED <<rung, slot, revoked, contact, failed>>
  BY DEF CommitAcknowledge
<1>3. lock[a] = t /\ a \in Open /\ alert[a].ack = None
  BY <1>1, <1>2 DEF Holds
<1>4. alert' = [alert EXCEPT ![a].status = IF @ = "active" THEN "acknowledged" ELSE @,
                             ![a].ack = by[t]]
  BY DEF CommitAcknowledge
<1>5. by[t] \in Actors
  BY Parts DEF TxnTypes
<1>6. a \in Alerts /\ a \in Raised /\ alert[a].status \in OpenStatuses /\ alert[a] \in AlertRecord
  BY <1>1, <1>3 DEF Open, Raised, OpenStatuses, RowTypes
<1>7. /\ alert' \in [Alerts -> AlertRecord]
      /\ \A b \in Alerts \ {a} : alert'[b] = alert[b]
      /\ alert'[a].status = IF alert[a].status = "active" THEN "acknowledged" ELSE alert[a].status
      /\ alert'[a].child = alert[a].child /\ alert'[a].press = alert[a].press
      /\ alert'[a].fix = alert[a].fix /\ alert'[a].climber = alert[a].climber
      /\ alert'[a].closer = alert[a].closer /\ alert'[a].reason = alert[a].reason
  BY <1>1, <1>4, <1>5, <1>6 DEF RowTypes, AlertRecord, Statuses, OpenStatuses
<1>8. Rank[alert'[a].status] >= Rank[alert[a].status]
  BY <1>6, <1>7, Ranks DEF OpenStatuses
<1>9. alert'[a].status \in {"active", "acknowledged"} => alert'[a].climber = None
  BY <1>1, <1>6, <1>7 DEF RowFacts, OpenStatuses
<1>10. alert'[a].status \in OpenStatuses
  BY <1>6, <1>7 DEF OpenStatuses
<1> QED BY <1>1, <1>2, <1>3, <1>6, <1>7, <1>8, <1>9, <1>10 DEF Records, RowTypes

LEMMA EscalateRecords ==
  ASSUME SosInv, NEW t \in Txns, CommitEscalate(t)
  PROVE  End(t) /\ \E a \in Alerts : Records(t, a)
<1> DEFINE a == item[t]
<1>1. RowTypes /\ RowFacts /\ Holds(t) /\ Asks(t)
  BY Parts DEF Requests
<1>2. End(t) /\ op[t] = "escalate" /\ pc[t] = "commit" /\ UNCHANGED <<slot, revoked, contact, failed>>
  BY DEF CommitEscalate, At
<1>3. lock[a] = t /\ alert[a].status \in {"active", "acknowledged"} /\ a \in Raised
  BY <1>1, <1>2 DEF Holds, Asks
<1>4. /\ alert' = [alert EXCEPT ![a].status = IF @ = "resolved" THEN @ ELSE "escalating",
                                ![a].climber = by[t]]
      /\ rung' = [rung EXCEPT ![a] = @ \cup chosen[t]]
  BY DEF CommitEscalate
<1>5. by[t] \in Actors /\ chosen[t] \subseteq Contacts
  BY Parts DEF TxnTypes
<1>6. a \in Alerts /\ a \in Open /\ alert[a] \in AlertRecord
  BY <1>1, <1>3 DEF Open, Raised, OpenStatuses, RowTypes
<1>7. /\ alert' \in [Alerts -> AlertRecord]
      /\ \A b \in Alerts \ {a} : alert'[b] = alert[b]
      /\ alert'[a].status = "escalating"
      /\ alert'[a].child = alert[a].child /\ alert'[a].press = alert[a].press
      /\ alert'[a].fix = alert[a].fix /\ alert'[a].ack = alert[a].ack
      /\ alert'[a].closer = alert[a].closer /\ alert'[a].reason = alert[a].reason
  BY <1>1, <1>3, <1>4, <1>5, <1>6 DEF RowTypes, AlertRecord, Statuses, OpenStatuses
<1>8. /\ rung' \in [Alerts -> SUBSET Contacts]
      /\ \A b \in Alerts \ {a} : rung'[b] = rung[b]
  BY <1>1, <1>4, <1>5, <1>6 DEF RowTypes
<1>9. Rank[alert'[a].status] >= Rank[alert[a].status]
  BY <1>3, <1>7, Ranks
<1>10. alert[a].climber = None
  BY <1>1, <1>3 DEF RowFacts
<1>11. alert'[a].status \in OpenStatuses
  BY <1>7 DEF OpenStatuses
<1> QED BY <1>2, <1>3, <1>6, <1>7, <1>8, <1>9, <1>10, <1>11 DEF Records

LEMMA ResolveRecords ==
  ASSUME SosInv, NEW t \in Txns, CommitResolve(t), ~Fail(t)
  PROVE  End(t) /\ \E a \in Alerts : Records(t, a)
<1> DEFINE a == item[t]
<1>1. RowTypes /\ RowFacts /\ Holds(t) /\ Asks(t)
  BY Parts DEF Requests
<1>2. /\ End(t) /\ At(t, "resolve", "commit") /\ op[t] = "resolve"
      /\ UNCHANGED <<rung, slot, revoked, contact, failed>>
  BY DEF CommitResolve, At
<1>3. /\ lock[a] = t /\ a \in Open /\ MayClose(t)
      /\ arg[t] \in Reasons
      /\ by[t] \in Devices => via[t] = by[t]
  BY <1>1, <1>2 DEF Holds, Asks
<1>4. alert' = [alert EXCEPT ![a].status = "resolved", ![a].closer = by[t],
                             ![a].reason = arg[t]]
  BY DEF CommitResolve
<1>5. by[t] \in Actors
  BY Parts DEF TxnTypes
<1>6. a \in Alerts /\ alert[a].status \in OpenStatuses /\ alert[a] \in AlertRecord
  BY <1>1, <1>3 DEF Open, RowTypes
<1>7. /\ alert' \in [Alerts -> AlertRecord]
      /\ \A b \in Alerts \ {a} : alert'[b] = alert[b]
      /\ alert'[a].status = "resolved"
      /\ alert'[a].child = alert[a].child /\ alert'[a].press = alert[a].press
      /\ alert'[a].fix = alert[a].fix /\ alert'[a].ack = alert[a].ack
      /\ alert'[a].climber = alert[a].climber
      /\ alert'[a].closer = by[t] /\ alert'[a].reason = arg[t]
  BY <1>1, <1>3, <1>4, <1>5, <1>6 DEF RowTypes, AlertRecord, Statuses
<1>8. Rank[alert'[a].status] >= Rank[alert[a].status]
  BY <1>6, <1>7, Ranks DEF OpenStatuses
<1>9. by[t] \in Devices => ChildOf[by[t]] = alert[a].child /\ arg[t] = "false_alarm"
  BY <1>3, RowsAssumption DEF MayClose
<1> QED BY <1>1, <1>2, <1>3, <1>6, <1>7, <1>8, <1>9 DEF Records, RowTypes

LEMMA RevokeErases ==
  ASSUME SosInv, NEW t \in Txns, CommitRevoke(t), ~Fail(t)
  PROVE  End(t) /\ Erases(t)
<1>1. Holds(t) /\ Asks(t)
  BY Parts DEF Requests
<1>2. /\ End(t) /\ op[t] = "revoke" /\ pc[t] = "commit"
      /\ \A u \in Pressing : Fix[item[u]] # item[t]
      /\ ~ \E a \in Naming(item[t]) : lock[a] # t
      /\ revoked' = revoked \cup {item[t]}
      /\ alert' = [a \in Alerts |-> IF a \in Naming(item[t])
                                     THEN [alert[a] EXCEPT !.fix = None] ELSE alert[a]]
      /\ UNCHANGED <<rung, slot, contact, failed>>
  BY DEF CommitRevoke, At
<1> QED BY <1>1, <1>2 DEF Erases, Holds, Asks

\* What a step does to incidents: it raises one, records in one, erases a device's
\* positions, or leaves them alone.
Rests == UNCHANGED <<alert, rung, slot, revoked>>
Does(t) ==
  \/ Rests
  \/ \E a \in Alerts : Raises(t, a)
  \/ \E a \in Alerts : Records(t, a)
  \/ Erases(t)

LEMMA StepDoes ==
  ASSUME SosInv, NEW t \in Txns, Step(t)
  PROVE  SosInv' /\ Does(t)
<1>0. TxnTypes /\ RowTypes /\ RowFacts /\ Asks(t) /\ Holds(t)
  BY Parts DEF Requests
<1>1. CASE FireLocksSlot(t) \/ FireLocksDevice(t) \/ FireLooks(t)
  <2>1. Rests
    BY <1>1 DEF FireLocksSlot, FireLocksDevice, FireLooks, LockAndCheck, Take, GoTo, Refuse,
                rows, Rests
  <2> QED BY <1>1, <2>1, FireStep DEF Does
<1>2. CASE InsertAlert(t)
  <2>1. Rests
    BY <1>2 DEF InsertAlert, GoTo, Refuse, Fail, rows, Rests
  <2> QED BY <1>2, <2>1, InsertAlertStep DEF Does
<1>3. CASE CommitFire(t)
  BY <1>3, CommitFireRaises, RaiseStep DEF Does
<1>4. CASE \/ AcknowledgeLocks(t) \/ EscalateLocks(t) \/ ReadLadder(t)
           \/ ResolveLocksDevice(t) \/ ResolveLocks(t)
           \/ RevokeLocksDevice(t) \/ RevokeLocksAlerts(t)
           \/ CountContacts(t) \/ ChangeLocks(t)
  <2>1. Rests
    BY <1>4 DEF AcknowledgeLocks, EscalateLocks, ReadLadder, ResolveLocksDevice, ResolveLocks,
                RevokeLocksDevice, RevokeLocksAlerts, CountContacts, ChangeLocks,
                LockAndCheck, Take, GoTo, Refuse, rows, Rests
  <2> QED BY <1>4, <2>1, LookStep DEF Does
<1>5. CASE CommitAcknowledge(t)
  BY <1>5, AcknowledgeRecords, RecordStep DEF Does
<1>6. CASE CommitEscalate(t)
  BY <1>6, EscalateRecords, RecordStep DEF Does
<1>7. CASE CommitResolve(t)
  <2>1. CASE Fail(t)
    <3>1. op[t] \in Operations
      BY <1>7 DEF CommitResolve, At, Operations
    <3>2. Rests
      BY <2>1 DEF Fail, Rests
    <3> QED BY <2>1, <3>1, <3>2, FailStep DEF Does
  <2>2. CASE ~Fail(t)
    BY <1>7, <2>2, ResolveRecords, RecordStep DEF Does
  <2> QED BY <2>1, <2>2
<1>8. CASE CommitRevoke(t)
  <2>1. CASE Fail(t)
    <3>1. op[t] \in Operations
      BY <1>8 DEF CommitRevoke, At, Operations
    <3>2. Rests
      BY <2>1 DEF Fail, Rests
    <3> QED BY <2>1, <3>1, <3>2, FailStep DEF Does
  <2>2. CASE ~Fail(t)
    BY <1>8, <2>2, RevokeErases, EraseStep DEF Does
  <2> QED BY <2>1, <2>2
<1>9. CASE InsertContact(t) \/ UpdateContact(t)
  <2>1. Rests
    BY <1>9 DEF InsertContact, UpdateContact, GoTo, Fail, rows, Rests
  <2> QED BY <1>9, <2>1, ContactNumberStep DEF Does
<1>10. CASE CommitContact(t)
  <2>1. CASE Refuse(t)
    BY <2>1, RefuseStep DEF Refuse, rows, Rests, Does
  <2>2. CASE ~Refuse(t)
    <3>1. PICK c \in Blank :
            contact' = [contact EXCEPT ![c] = [NoContact EXCEPT !.status = "live",
                                                               !.phone = arg[t]]]
      BY <1>10, <2>2 DEF CommitContact
    <3>2. End(t) /\ UNCHANGED <<alert, rung, slot, revoked, failed>>
      BY <1>10, <2>2 DEF CommitContact
    <3> DEFINE k == [NoContact EXCEPT !.status = "live", !.phone = arg[t]]
    <3>3. c \in Contacts /\ c \notin Live
      BY <3>1 DEF Blank, Live
    <3>4. op[t] = "addContact" /\ pc[t] = "commit" /\ arg[t] \in Phones /\ item[t] = None
      BY <1>0, <1>10 DEF CommitContact, At, Asks
    <3>5. k \in ContactRecord /\ k.phone = arg[t]
      BY <3>4 DEF NoContact, ContactRecord, Verifications
    <3>6. \A d \in Live \ {c} : contact[d].phone # arg[t]
      BY <1>0, <3>4, RowsAssumption DEF Holds, Numbering, At, Live
    <3>7. \A u \in Txns \ {t} : Numbering(u) => arg[u] # arg[t]
      <4>1. OneAtATime /\ Numbering(t)
        BY <3>4, Parts DEF Numbering, At
      <4> QED BY <4>1 DEF OneAtATime
    <3>8. contact' = [contact EXCEPT ![c] = k]
      BY <3>1
    <3> HIDE DEF k
    <3>9. /\ \A d \in Live \ {c} : contact[d].phone # k.phone
          /\ \A u \in Txns \ {t} : Numbering(u) => arg[u] # k.phone
      BY <3>5, <3>6, <3>7
    <3>10. SosInv'
      BY <3>2, <3>3, <3>5, <3>8, <3>9, ContactStep
    <3> QED BY <3>2, <3>10 DEF Rests, Does
  <2> QED BY <2>1, <2>2
<1>11. CASE ChangeContact(t)
  <2>1. /\ op[t] = "changeContact" /\ pc[t] = "commit"
        /\ item[t] \in Live /\ item[t] \in Contacts /\ lock[item[t]] = t
        /\ arg[t] \in Phones \cup {None}
        /\ End(t) /\ UNCHANGED <<alert, rung, slot, revoked, failed>>
    BY <1>0, <1>11 DEF ChangeContact, At, Holds, Asks
  <2>2. PICK v \in Verifications \cup {None}, e \in BOOLEAN :
          contact' = [contact EXCEPT ![item[t]] = Changed(@, arg[t], v, e)]
    BY <1>11 DEF ChangeContact
  <2> DEFINE k == Changed(contact[item[t]], arg[t], v, e)
  <2>3. contact[item[t]] \in ContactRecord
    BY <1>0, <2>1 DEF RowTypes
  <2>4. /\ k \in ContactRecord
        /\ k.phone = IF arg[t] = None THEN contact[item[t]].phone ELSE arg[t]
    BY <2>1, <2>3 DEF Changed, Given, ContactRecord
  <2>5. \A d \in Live \ {item[t]} : contact[d].phone # k.phone
    <3>1. CASE arg[t] = None
      BY <1>0, <2>1, <2>4, <3>1 DEF RowFacts, LivePhonesDistinct
    <3>2. CASE arg[t] # None
      BY <1>0, <2>1, <2>4, <3>2 DEF Holds, Numbering, At
    <3> QED BY <3>1, <3>2
  <2>6. \A u \in Txns \ {t} : Numbering(u) => arg[u] # k.phone
    <3>1. CASE arg[t] = None
      <4> SUFFICES ASSUME NEW u \in Txns, u # t, Numbering(u) PROVE arg[u] # k.phone
        OBVIOUS
      <4>1. (\A c \in Live \ {item[u]} : contact[c].phone # arg[u]) /\ Holds(u) /\ Asks(u)
        BY Parts DEF Requests, Holds
      <4>2. item[u] # item[t]
        BY <2>1, <4>1, RowsAssumption DEF Holds, Asks, Numbering, At
      <4> QED BY <2>1, <2>4, <3>1, <4>1, <4>2
    <3>2. CASE arg[t] # None
      <4>1. OneAtATime /\ Numbering(t)
        BY <2>1, <3>2, Parts DEF Numbering, At
      <4> QED BY <2>4, <3>2, <4>1 DEF OneAtATime
    <3> QED BY <3>1, <3>2
  <2>7. contact' = [contact EXCEPT ![item[t]] = k]
    BY <2>2
  <2> HIDE DEF k
  <2>8. SosInv'
    BY <2>1, <2>4, <2>5, <2>6, <2>7, ContactStep
  <2> QED BY <2>1, <2>8 DEF Rests, Does
<1>12. CASE ArchiveContact(t)
  <2>0. /\ op[t] = "changeContact" /\ pc[t] = "archive"
        /\ item[t] \in Contacts /\ lock[item[t]] = t
        /\ End(t) /\ UNCHANGED <<alert, rung, slot, revoked, failed>>
    BY <1>0, <1>12 DEF ArchiveContact, At, Holds, Asks
  <2> DEFINE k == [contact[item[t]] EXCEPT !.status = "archived"]
  <2>1. k \in ContactRecord /\ k.status = "archived"
    BY <1>0, <2>0 DEF RowTypes, ContactRecord
  <2>2. contact' = [contact EXCEPT ![item[t]] = k]
    BY <1>12 DEF ArchiveContact
  <2> HIDE DEF k
  <2>3. SosInv'
    BY <2>0, <2>1, <2>2, ContactStep
  <2> QED BY <2>0, <2>3 DEF Rests, Does
<1> QED BY <1>1, <1>2, <1>3, <1>4, <1>5, <1>6, <1>7, <1>8, <1>9, <1>10, <1>11, <1>12 DEF Step

LEMMA NextDoes ==
  ASSUME SosInv, [Next]_vars
  PROVE  SosInv' /\ (Rests \/ \E t \in Txns : Does(t))
<1>1. ASSUME NEW t \in Txns, BeginSome(t) PROVE SosInv' /\ Rests
  <2>1. Rests
    BY <1>1 DEF BeginSome, BeginFire, BeginAcknowledge, BeginEscalate, BeginResolve,
                BeginRevoke, BeginAddContact, BeginChangeContact, Begin, rows, Rests
  <2> QED BY <1>1, <2>1, BeginSomeStep
<1>2. ASSUME NEW t \in Txns, Step(t) PROVE SosInv' /\ Does(t)
  BY <1>2, StepDoes
<1>3. ASSUME NEW t \in Txns, ConnectionLost(t) PROVE SosInv' /\ Rests
  BY <1>3, RefuseStep DEF ConnectionLost, Refuse, rows, Rests
<1>4. CASE UNCHANGED vars
  <2>1. SosInv'
    BY <1>4 DEF vars, rows, txns, SosInv, TypeOK, RowFacts, Asks, Holds, OneAtATime, Raised,
         Open, Live, OneOpenIncident, OnePressOneIncident, NoErasedPosition,
         DeviceClosesOwnFalseAlarm, LivePhonesDistinct, At, Numbering, Speaks, MayClose, Pressing
  <2> QED BY <1>4, <2>1 DEF vars, rows, Rests
<1> QED BY <1>1, <1>2, <1>3, <1>4 DEF Next

-----------------------------------------------------------------------------
(* The theorems.                                                           *)

LEMMA InitHolds == Init => SosInv
<1> SUFFICES ASSUME Init PROVE SosInv
  OBVIOUS
<1>1. TypeOK
  BY DEF Init, TypeOK, Statuses, NoAlert, NoContact, Actors, Steps, Verifications
<1>2. Raised = {} /\ Open = {} /\ Live = {}
  BY DEF Init, Raised, Open, Live, NoAlert, NoContact, OpenStatuses
<1>3. RowFacts
  BY <1>2 DEF Init, RowFacts, OneOpenIncident, OnePressOneIncident, NoErasedPosition,
        DeviceClosesOwnFalseAlarm, LivePhonesDistinct
<1>4. \A t \in Txns : Asks(t) /\ Holds(t)
  BY DEF Init, Asks, Holds, Numbering, At
<1>5. OneAtATime
  BY DEF Init, OneAtATime, Pressing, Numbering, At
<1> QED BY <1>1, <1>3, <1>4, <1>5 DEF SosInv

\* Whatever a transaction checked of a row it holds stays true until it ends.
THEOREM SosInvariant == Spec => []SosInv
<1>1. SosInv /\ [Next]_vars => SosInv'
  BY NextDoes
<1> QED BY InitHolds, <1>1, PTL DEF Spec

\* Every table and every transaction keeps its type.
THEOREM TypeCorrect == Spec => []TypeOK
<1>1. SosInv => TypeOK
  BY DEF SosInv
<1> QED BY <1>1, SosInvariant, PTL

\* No child ever has two incidents in flight, however many presses race.
THEOREM AtMostOneInFlight == Spec => []OneOpenIncident
<1>1. SosInv => OneOpenIncident
  BY DEF SosInv, RowFacts
<1> QED BY <1>1, SosInvariant, PTL

\* A press and all its retries make at most one incident.
THEOREM RetriesMakeNothing == Spec => []OnePressOneIncident
<1>1. SosInv => OnePressOneIncident
  BY DEF SosInv, RowFacts
<1> QED BY <1>1, SosInvariant, PTL

\* No incident names a position of a device that was cut off.
THEOREM ErasureIsComplete == Spec => []NoErasedPosition
<1>1. SosInv => NoErasedPosition
  BY DEF SosInv, RowFacts
<1> QED BY <1>1, SosInvariant, PTL

\* A device closes only its own child's incident, as a false alarm.
THEOREM HandsetClosesItsOwn == Spec => []DeviceClosesOwnFalseAlarm
<1>1. SosInv => DeviceClosesOwnFalseAlarm
  BY DEF SosInv, RowFacts
<1> QED BY <1>1, SosInvariant, PTL

\* No two live contacts of the ladder share a number.
THEOREM NumbersDistinct == Spec => []LivePhonesDistinct
<1>1. SosInv => LivePhonesDistinct
  BY DEF SosInv, RowFacts
<1> QED BY <1>1, SosInvariant, PTL

\* A device that was cut off raises nothing: its press holds the device until it is
\* stored.
THEOREM CutOffRaisesNothing == Spec => RevokedDeviceRaisesNothing
<1>1. ASSUME SosInv, [Next]_vars
      PROVE  \A a \in Alerts : a \notin Raised /\ a \in Raised' => By[alert'[a].press] \notin revoked
  <2> SUFFICES ASSUME NEW a \in Alerts, a \notin Raised, a \in Raised'
               PROVE  By[alert'[a].press] \notin revoked
    OBVIOUS
  <2>0. RowTypes /\ alert[a].status = "absent" /\ alert'[a].status # "absent"
    BY <1>1, Parts DEF Raised
  <2>1. CASE Rests
    BY <2>0, <2>1 DEF Rests
  <2>2. ASSUME NEW t \in Txns, NEW b \in Alerts, Raises(t, b)
        PROVE  By[alert'[a].press] \notin revoked
    <3>1. /\ alert'[b].press = item[t]
          /\ \A c \in Alerts \ {b} : alert'[c] = alert[c]
      BY <2>0, <2>2 DEF Raises, RowTypes, NoAlert
    <3>2. a = b
      BY <2>0, <3>1
    <3> QED BY <2>2, <3>1, <3>2 DEF Raises
  <2>3. ASSUME NEW t \in Txns, NEW b \in Alerts, Records(t, b) PROVE FALSE
    BY <2>0, <2>3 DEF Records, Open, OpenStatuses
  <2>4. ASSUME NEW t \in Txns, Erases(t) PROVE FALSE
    BY <2>0, <2>4 DEF Erases, RowTypes, AlertRecord
  <2> QED BY <1>1, <2>1, <2>2, <2>3, <2>4, NextDoes DEF Does
<1> QED BY <1>1, SosInvariant, PTL DEF Spec, RevokedDeviceRaisesNothing

\* One incident's history through one step.
Stands(a) ==
  /\ Rank[alert'[a].status] >= Rank[alert[a].status]
  /\ alert'[a].child = alert[a].child /\ alert'[a].press = alert[a].press
  /\ alert[a].ack # None => alert'[a].ack = alert[a].ack
  /\ alert[a].climber # None => alert'[a].climber = alert[a].climber /\ rung'[a] = rung[a]
  /\ alert[a].status = "resolved" => alert'[a] \in {alert[a], [alert[a] EXCEPT !.fix = None]}

\* What an incident records stands, and a closed incident is final.
THEOREM HistoryIsKept == Spec => IncidentHistoryStands
<1>1. ASSUME SosInv, [Next]_vars PROVE \A a \in Raised : Stands(a)
  <2> SUFFICES ASSUME NEW a \in Raised PROVE Stands(a)
    OBVIOUS
  <2>0. /\ RowTypes /\ a \in Alerts /\ alert[a].status \in Statuses
        /\ Rank[alert[a].status] >= Rank[alert[a].status]
    <3>1. RowTypes /\ a \in Alerts /\ alert[a].status \in Statuses
      BY <1>1, Parts DEF Raised, RowTypes, AlertRecord
    <3> QED BY <3>1, Ranks DEF Statuses, OpenStatuses
  <2>1. ASSUME alert'[a] = alert[a], rung'[a] = rung[a] PROVE Stands(a)
    BY <2>0, <2>1 DEF Stands
  <2>2. CASE Rests
    BY <2>1, <2>2 DEF Rests
  <2>3. ASSUME NEW t \in Txns, NEW b \in Alerts, Raises(t, b) PROVE Stands(a)
    <3>1. alert'[a] = alert[a] /\ rung'[a] = rung[a]
      BY <2>0, <2>3 DEF Raises, RowTypes
    <3> QED BY <2>1, <3>1
  <2>4. ASSUME NEW t \in Txns, NEW b \in Alerts, Records(t, b) PROVE Stands(a)
    <3>1. CASE a = b
      BY <2>4, <3>1 DEF Records, Stands, Open, OpenStatuses
    <3>2. CASE a # b
      BY <2>0, <2>1, <2>4, <3>2 DEF Records
    <3> QED BY <3>1, <3>2
  <2>5. ASSUME NEW t \in Txns, Erases(t) PROVE Stands(a)
    <3>1. /\ alert'[a] \in {alert[a], [alert[a] EXCEPT !.fix = None]}
          /\ rung'[a] = rung[a]
      BY <2>0, <2>5 DEF Erases
    <3>2. /\ alert'[a].status = alert[a].status /\ alert'[a].child = alert[a].child
          /\ alert'[a].press = alert[a].press /\ alert'[a].ack = alert[a].ack
          /\ alert'[a].climber = alert[a].climber
      BY <2>0, <3>1 DEF RowTypes, AlertRecord
    <3> QED BY <2>0, <3>1, <3>2 DEF Stands
  <2> QED BY <1>1, <2>2, <2>3, <2>4, <2>5, NextDoes DEF Does
<1>2. (\A a \in Raised : Stands(a)) =>
        \A a \in Raised :
          /\ Rank[alert'[a].status] >= Rank[alert[a].status]
          /\ alert'[a].child = alert[a].child /\ alert'[a].press = alert[a].press
          /\ alert[a].ack # None => alert'[a].ack = alert[a].ack
          /\ alert[a].climber # None => alert'[a].climber = alert[a].climber /\ rung'[a] = rung[a]
          /\ alert[a].status = "resolved" =>
               alert'[a] \in {alert[a], [alert[a] EXCEPT !.fix = None]}
  BY DEF Stands
<1> QED BY <1>1, <1>2, SosInvariant, PTL DEF Spec, IncidentHistoryStands

\* The emergency surface is an IncidentBook: every step raises one incident for a child
\* that has none in flight, closes one, or changes nothing the book speaks of.
THEOREM BookKept == Spec => KeepsIncidents
<1> DEFINE Closed == {a \in Alerts : alert[a].status = "resolved"}
           about == [a \in Alerts |-> alert[a].child]
<1>1. Init => Book!Init
  BY DEF Init, Book!Init, NoAlert, Open, OpenStatuses
<1>2. ASSUME SosInv, [Next]_vars PROVE [Book!Next]_Book!vars
  <2>0. RowTypes /\ RowFacts
    BY <1>2, Parts
  <2>1. CASE Rests
    BY <2>1 DEF Rests, Open, Book!vars
  <2>2. ASSUME NEW t \in Txns, NEW a \in Alerts, Raises(t, a) PROVE Book!Next
    <3>1. /\ item[t] \in Presses /\ About[item[t]] \in Children
          /\ a \notin Raised /\ \A b \in Open : alert[b].child # About[item[t]]
      BY <2>2, PressAssumption DEF Raises
    <3>2. /\ alert'[a].status = "active" /\ alert'[a].child = About[item[t]]
          /\ \A b \in Alerts \ {a} : alert'[b] = alert[b]
      BY <2>0, <2>2 DEF Raises, RowTypes, NoAlert
    <3>3. alert[a].child = None /\ alert[a].status = "absent"
      BY <2>0, <3>1 DEF RowFacts, NoAlert
    <3>4. Open' = Open \cup {a}
      BY <3>2, <3>3 DEF Open, OpenStatuses
    <3>5. Closed' = Closed
      BY <3>2, <3>3
    <3>6. about' = [about EXCEPT ![a] = About[item[t]]]
      BY <3>2
    <3>7. about[a] = None /\ \A b \in Open : about[b] # About[item[t]]
      BY <3>1, <3>3 DEF Open
    <3>8. Book!Raise(a, About[item[t]])
      BY <3>4, <3>5, <3>6, <3>7 DEF Book!Raise
    <3> QED BY <3>1, <3>8 DEF Book!Next, Book!Raise
  <2>3. ASSUME NEW t \in Txns, NEW a \in Alerts, Records(t, a) PROVE [Book!Next]_Book!vars
    <3>1. /\ a \in Open /\ alert'[a].child = alert[a].child
          /\ alert'[a].status \in OpenStatuses \cup {"resolved"}
          /\ \A b \in Alerts \ {a} : alert'[b] = alert[b]
      BY <2>3 DEF Records
    <3>2. about' = about
      BY <3>1
    <3>3. CASE alert'[a].status = "resolved"
      <4>1. Open' = Open \ {a} /\ Closed' = Closed \cup {a}
        BY <3>1, <3>3 DEF Open, OpenStatuses
      <4>2. Book!Close(a)
        BY <3>1, <3>2, <4>1 DEF Book!Close
      <4> QED BY <4>2 DEF Book!Next
    <3>4. CASE alert'[a].status \in OpenStatuses
      <4>1. Open' = Open /\ Closed' = Closed
        BY <3>1, <3>4 DEF Open, OpenStatuses
      <4> QED BY <3>2, <4>1 DEF Book!vars
    <3> QED BY <3>1, <3>3, <3>4
  <2>4. ASSUME NEW t \in Txns, Erases(t) PROVE UNCHANGED Book!vars
    <3>1. \A a \in Alerts : /\ alert'[a].status = alert[a].status
                            /\ alert'[a].child = alert[a].child
      BY <2>0, <2>4 DEF Erases, RowTypes, AlertRecord
    <3> QED BY <3>1 DEF Open, Book!vars
  <2> QED BY <1>2, <2>1, <2>2, <2>3, <2>4, NextDoes DEF Does
<1> QED BY <1>1, <1>2, SosInvariant, PTL DEF Spec, KeepsIncidents, Book!Spec

-----------------------------------------------------------------------------
(* No circle of waits: what a transaction may hold says how far it is, and *)
(* it only ever waits for one that is further.                             *)

\* A statement that locks belongs to an operation that locks there, and has what to lock.
Route(t) ==
  /\ pc[t] = "lockSlot" => op[t] = "fire"
  /\ pc[t] = "lockDevice" => \/ op[t] = "revoke"
                             \/ op[t] \in {"fire", "resolve"} /\ via[t] \in Devices
  /\ pc[t] = "lockItem" =>
       op[t] \in {"acknowledge", "escalate", "resolve", "revoke", "changeContact"}

\* Where a transaction is that holds row x.
Place(t, x) ==
  /\ x \in Presses => op[t] = "fire" /\ pc[t] \in {"lockDevice", "look", "insert", "commit"}
  /\ x \in Devices => \/ op[t] = "fire" /\ pc[t] \in {"look", "insert", "commit"}
                      \/ op[t] \in {"resolve", "revoke"} /\ pc[t] \in {"lockItem", "commit"}
  /\ x \in Alerts => \/ op[t] \in {"acknowledge", "resolve", "revoke"} /\ pc[t] = "commit"
                     \/ op[t] = "escalate" /\ pc[t] \in {"look", "commit"}
  /\ x \in Contacts =>
       op[t] = "changeContact" /\ pc[t] \in {"insert", "archive", "commit"}

OrderInv == \A t \in Txns : Route(t) /\ \A x \in Rows : lock[x] = t => Place(t, x)

\* A step of t that takes only what its new place allows.
LEMMA OrderStep ==
  ASSUME OrderInv, NEW t \in Txns,
         \A u \in Txns \ {t} : op'[u] = op[u] /\ pc'[u] = pc[u] /\ via'[u] = via[u],
         \A x \in Rows, u \in Txns \ {t} : lock'[x] = u => lock[x] = u,
         Route(t)', \A x \in Rows : lock'[x] = t => Place(t, x)'
  PROVE  OrderInv'
<1> SUFFICES ASSUME NEW u \in Txns, u # t
             PROVE  Route(u)' /\ \A x \in Rows : lock'[x] = u => Place(u, x)'
  BY DEF OrderInv
<1>1. op'[u] = op[u] /\ pc'[u] = pc[u] /\ via'[u] = via[u]
  OBVIOUS
<1>2. Route(u)'
  BY <1>1 DEF OrderInv, Route
<1>3. ASSUME NEW x \in Rows, lock'[x] = u PROVE Place(u, x)'
  <2>1. Place(u, x)
    BY <1>3 DEF OrderInv
  <2> QED BY <1>1, <2>1 DEF Place, At
<1> QED BY <1>2, <1>3

LEMMA OrderEnd ==
  ASSUME TxnTypes, OrderInv, NEW t \in Txns, End(t)
  PROVE  OrderInv'
<1>1. /\ \A u \in Txns \ {t} : op'[u] = op[u] /\ pc'[u] = pc[u] /\ via'[u] = via[u]
      /\ pc'[t] = "idle"
  BY DEF End, Forget, TxnTypes
<1>2. /\ \A x \in Rows, u \in Txns \ {t} : lock'[x] = u => lock[x] = u
      /\ \A x \in Rows : lock'[x] # t
  BY RowsAssumption DEF End, TxnTypes
<1>3. Route(t)'
  BY <1>1 DEF Route
<1> QED BY <1>1, <1>2, <1>3, OrderStep

\* Going on with the rows it had and the rows of taken.
LEMMA OrderGo ==
  ASSUME TxnTypes, OrderInv, NEW t \in Txns, NEW step, NEW taken,
         op' = op, via' = via, pc' = [pc EXCEPT ![t] = step],
         \A x \in Rows : lock'[x] = IF x \in taken THEN t ELSE lock[x],
         Route(t)',
         \A x \in Rows : x \in taken \/ Place(t, x) => Place(t, x)'
  PROVE  OrderInv'
<1>1. \A u \in Txns \ {t} : op'[u] = op[u] /\ pc'[u] = pc[u] /\ via'[u] = via[u]
  BY DEF TxnTypes
<1>2. \A x \in Rows, u \in Txns \ {t} : lock'[x] = u => lock[x] = u
  OBVIOUS
<1>3. \A x \in Rows : lock'[x] = t => Place(t, x)'
  BY DEF OrderInv
<1> QED BY <1>1, <1>2, <1>3, OrderStep

LEMMA OrderGoTo ==
  ASSUME TxnTypes, OrderInv, NEW t \in Txns, NEW step, GoTo(t, step), Route(t)',
         \A x \in Rows : Place(t, x) => Place(t, x)'
  PROVE  OrderInv'
<1>1. op' = op /\ via' = via /\ pc' = [pc EXCEPT ![t] = step] /\ lock' = lock
  BY DEF GoTo
<1> DEFINE nothing == {}
<1>2. \A x \in Rows : lock'[x] = IF x \in nothing THEN t ELSE lock[x]
  BY <1>1
<1>3. \A x \in Rows : x \in nothing \/ Place(t, x) => Place(t, x)'
  OBVIOUS
<1> HIDE DEF nothing
<1> QED BY <1>1, <1>2, <1>3, OrderGo

LEMMA OrderLock ==
  ASSUME TxnTypes, OrderInv, NEW t \in Txns, NEW x, NEW ok, NEW step,
         LockAndCheck(t, x, ok, step),
         Take(t, x, step) =>
           Route(t)' /\ \A y \in Rows : y = x \/ Place(t, y) => Place(t, y)'
  PROVE  OrderInv'
<1>1. CASE Refuse(t)
  BY <1>1, OrderEnd DEF Refuse
<1>2. CASE Take(t, x, step)
  <2>1. op' = op /\ via' = via /\ pc' = [pc EXCEPT ![t] = step]
        /\ \A y \in Rows : lock'[y] = IF y \in {x} THEN t ELSE lock[y]
    BY <1>2 DEF Take, TxnTypes
  <2>2. Route(t)' /\ \A y \in Rows : y \in {x} \/ Place(t, y) => Place(t, y)'
    BY <1>2
  <2> QED BY <2>1, <2>2, OrderGo
<1> QED BY <1>1, <1>2 DEF LockAndCheck

\* Who begins holds nothing.
LEMMA OrderBegin ==
  ASSUME TxnTypes, OrderInv, NEW t \in Txns, NEW kind, NEW step, NEW who, NEW door,
         NEW row, NEW a, Begin(t, kind, step, who, door, row, a),
         step = "lockSlot" => kind = "fire",
         step = "lockDevice" => kind = "revoke" \/ (kind = "resolve" /\ door \in Devices),
         step = "lockItem" =>
           kind \in {"acknowledge", "escalate", "resolve", "revoke", "changeContact"}
  PROVE  OrderInv'
<1>1. /\ \A u \in Txns \ {t} : op'[u] = op[u] /\ pc'[u] = pc[u] /\ via'[u] = via[u]
      /\ op'[t] = kind /\ pc'[t] = step /\ via'[t] = door /\ lock' = lock /\ pc[t] = "idle"
  BY DEF Begin, TxnTypes
<1>2. \A x \in Rows : lock[x] # t
  BY <1>1 DEF OrderInv, Place, At, Rows
<1>3. Route(t)'
  BY <1>1 DEF Route
<1> QED BY <1>1, <1>2, <1>3, OrderStep

LEMMA OrderStart ==
  ASSUME TxnTypes, OrderInv, NEW t \in Txns, BeginSome(t)
  PROVE  OrderInv'
<1>1. CASE BeginFire(t)
  BY <1>1, OrderBegin DEF BeginFire
<1>2. CASE BeginAcknowledge(t)
  BY <1>2, OrderBegin DEF BeginAcknowledge
<1>3. CASE BeginEscalate(t)
  BY <1>3, OrderBegin DEF BeginEscalate
<1>4. CASE BeginResolve(t)
  BY <1>4, OrderBegin DEF BeginResolve
<1>5. CASE BeginRevoke(t)
  BY <1>5, OrderBegin DEF BeginRevoke
<1>6. CASE BeginAddContact(t)
  BY <1>6, OrderBegin DEF BeginAddContact
<1>7. CASE BeginChangeContact(t)
  BY <1>7, OrderBegin DEF BeginChangeContact
<1> QED BY <1>1, <1>2, <1>3, <1>4, <1>5, <1>6, <1>7 DEF BeginSome

LEMMA OrderPress ==
  ASSUME TxnTypes, OrderInv, NEW t \in Txns, Asks(t),
         FireLocksSlot(t) \/ FireLocksDevice(t) \/ FireLooks(t) \/ InsertAlert(t)
  PROVE  OrderInv'
<1>0. op \in [Txns -> Operations \cup {"none"}] /\ pc \in [Txns -> Steps]
  BY DEF TxnTypes
<1>1. CASE FireLocksSlot(t)
  <2>0. item[t] \in Presses /\ op[t] = "fire" /\ pc[t] = "lockSlot"
    BY <1>1 DEF FireLocksSlot, At, Asks
  <2> DEFINE step == IF via[t] = None THEN "look" ELSE "lockDevice"
  <2>1. ASSUME Take(t, item[t], step)
        PROVE  Route(t)' /\ \A y \in Rows : y = item[t] \/ Place(t, y) => Place(t, y)'
    <3>1. /\ op'[t] = "fire" /\ pc'[t] \in {"look", "lockDevice"}
          /\ pc'[t] = "lockDevice" => via'[t] \in Devices
      BY <1>0, <2>0, <2>1 DEF Take, TxnTypes
    <3> QED BY <2>0, <3>1, RowsAssumption DEF Route, Place, At, Rows
  <2>2. LockAndCheck(t, item[t], slot[item[t]] = None, step)
    BY <1>1 DEF FireLocksSlot
  <2> HIDE DEF step
  <2> QED BY <2>1, <2>2, OrderLock
<1>2. CASE FireLocksDevice(t)
  <2>0. op[t] = "fire" /\ pc[t] = "lockDevice" /\ via[t] \in Devices \cup {None}
    BY <1>2 DEF FireLocksDevice, At, TxnTypes
  <2>1. ASSUME Take(t, via[t], "look")
        PROVE  Route(t)' /\ \A y \in Rows : y = via[t] \/ Place(t, y) => Place(t, y)'
    <3>1. op'[t] = "fire" /\ pc'[t] = "look"
      BY <1>0, <2>0, <2>1 DEF Take
    <3> QED BY <2>0, <3>1, RowsAssumption DEF Route, Place, At, Rows
  <2>2. LockAndCheck(t, via[t], Speaks(t), "look")
    BY <1>2 DEF FireLocksDevice
  <2> QED BY <2>1, <2>2, OrderLock
<1>3. CASE FireLooks(t) /\ ~Refuse(t)
  <2>1. op[t] = "fire" /\ pc[t] = "look" /\ GoTo(t, "insert")
    BY <1>3 DEF FireLooks, At
  <2>2. op'[t] = "fire" /\ pc'[t] = "insert"
    BY <1>0, <2>1 DEF GoTo
  <2>3. Route(t)' /\ \A x \in Rows : Place(t, x) => Place(t, x)'
    BY <2>1, <2>2 DEF Route, Place, At
  <2> QED BY <2>1, <2>3, OrderGoTo
<1>4. CASE InsertAlert(t) /\ ~Refuse(t) /\ ~Fail(t)
  <2>1. op[t] = "fire" /\ pc[t] = "insert" /\ GoTo(t, "commit")
    BY <1>4 DEF InsertAlert, At
  <2>2. op'[t] = "fire" /\ pc'[t] = "commit"
    BY <1>0, <2>1 DEF GoTo
  <2>3. Route(t)' /\ \A x \in Rows : Place(t, x) => Place(t, x)'
    BY <2>1, <2>2 DEF Route, Place, At
  <2> QED BY <2>1, <2>3, OrderGoTo
<1>5. CASE Refuse(t) \/ Fail(t)
  BY <1>5, OrderEnd DEF Refuse, Fail
<1> QED BY <1>1, <1>2, <1>3, <1>4, <1>5

LEMMA OrderIncident ==
  ASSUME TxnTypes, OrderInv, NEW t \in Txns, Asks(t), Raised \subseteq Alerts,
         \/ AcknowledgeLocks(t) \/ EscalateLocks(t) \/ ReadLadder(t)
         \/ ResolveLocksDevice(t) \/ ResolveLocks(t)
  PROVE  OrderInv'
<1>0. op \in [Txns -> Operations \cup {"none"}] /\ pc \in [Txns -> Steps]
  BY DEF TxnTypes
<1>1. CASE AcknowledgeLocks(t)
  <2>0. op[t] = "acknowledge" /\ pc[t] = "lockItem" /\ item[t] \in Alerts
    BY <1>1 DEF AcknowledgeLocks, At, Asks
  <2>1. ASSUME Take(t, item[t], "commit")
        PROVE  Route(t)' /\ \A y \in Rows : y = item[t] \/ Place(t, y) => Place(t, y)'
    <3>1. op'[t] = "acknowledge" /\ pc'[t] = "commit"
      BY <1>0, <2>0, <2>1 DEF Take
    <3> QED BY <2>0, <3>1, RowsAssumption DEF Route, Place, At, Rows
  <2> QED BY <1>1, <2>1, OrderLock DEF AcknowledgeLocks
<1>2. CASE EscalateLocks(t)
  <2>0. op[t] = "escalate" /\ pc[t] = "lockItem" /\ item[t] \in Alerts
    BY <1>2 DEF EscalateLocks, At, Asks
  <2>1. ASSUME Take(t, item[t], "look")
        PROVE  Route(t)' /\ \A y \in Rows : y = item[t] \/ Place(t, y) => Place(t, y)'
    <3>1. op'[t] = "escalate" /\ pc'[t] = "look"
      BY <1>0, <2>0, <2>1 DEF Take
    <3> QED BY <2>0, <3>1, RowsAssumption DEF Route, Place, At, Rows
  <2> QED BY <1>2, <2>1, OrderLock DEF EscalateLocks
<1>3. CASE ReadLadder(t)
  <2>1. /\ op[t] = "escalate" /\ pc[t] = "look" /\ op' = op /\ via' = via /\ lock' = lock
        /\ pc' = [pc EXCEPT ![t] = "commit"]
    BY <1>3 DEF ReadLadder, At
  <2>2. op'[t] = "escalate" /\ pc'[t] = "commit"
    BY <1>0, <2>1
  <2>3. Route(t)' /\ \A x \in Rows : Place(t, x) => Place(t, x)'
    BY <2>1, <2>2 DEF Route, Place, At
  <2> DEFINE nothing == {}
  <2>4. /\ \A x \in Rows : lock'[x] = IF x \in nothing THEN t ELSE lock[x]
        /\ \A x \in Rows : x \in nothing \/ Place(t, x) => Place(t, x)'
    BY <2>1, <2>3
  <2> HIDE DEF nothing
  <2> QED BY <2>1, <2>3, <2>4, OrderGo
<1>4. CASE ResolveLocksDevice(t)
  <2>0. op[t] = "resolve" /\ pc[t] = "lockDevice" /\ via[t] \in Devices \cup {None}
    BY <1>4 DEF ResolveLocksDevice, At, TxnTypes
  <2>1. ASSUME Take(t, via[t], "lockItem")
        PROVE  Route(t)' /\ \A y \in Rows : y = via[t] \/ Place(t, y) => Place(t, y)'
    <3>1. op'[t] = "resolve" /\ pc'[t] = "lockItem"
      BY <1>0, <2>0, <2>1 DEF Take
    <3> QED BY <2>0, <3>1, RowsAssumption DEF Route, Place, At, Rows
  <2>2. LockAndCheck(t, via[t], Speaks(t), "lockItem")
    BY <1>4 DEF ResolveLocksDevice
  <2> QED BY <2>1, <2>2, OrderLock
<1>5. CASE ResolveLocks(t)
  <2>0. op[t] = "resolve" /\ pc[t] = "lockItem" /\ item[t] \in Alerts
    BY <1>5 DEF ResolveLocks, At, Asks
  <2>1. ASSUME Take(t, item[t], "commit")
        PROVE  Route(t)' /\ \A y \in Rows : y = item[t] \/ Place(t, y) => Place(t, y)'
    <3>1. op'[t] = "resolve" /\ pc'[t] = "commit"
      BY <1>0, <2>0, <2>1 DEF Take
    <3> QED BY <2>0, <3>1, RowsAssumption DEF Route, Place, At, Rows
  <2>2. LockAndCheck(t, item[t], MayClose(t) /\ item[t] \in Open, "commit")
    BY <1>5 DEF ResolveLocks
  <2> QED BY <2>1, <2>2, OrderLock
<1> QED BY <1>1, <1>2, <1>3, <1>4, <1>5

LEMMA OrderRest ==
  ASSUME TxnTypes, OrderInv, NEW t \in Txns, Asks(t), Raised \subseteq Alerts,
         \/ RevokeLocksDevice(t) \/ RevokeLocksAlerts(t)
         \/ CountContacts(t) \/ InsertContact(t) \/ ChangeLocks(t) \/ UpdateContact(t)
  PROVE  OrderInv'
<1>0. op \in [Txns -> Operations \cup {"none"}] /\ pc \in [Txns -> Steps]
  BY DEF TxnTypes
<1>1. CASE RevokeLocksDevice(t)
  <2>0. op[t] = "revoke" /\ pc[t] = "lockDevice" /\ item[t] \in Devices
    BY <1>1 DEF RevokeLocksDevice, At, Asks
  <2>1. ASSUME Take(t, item[t], "lockItem")
        PROVE  Route(t)' /\ \A y \in Rows : y = item[t] \/ Place(t, y) => Place(t, y)'
    <3>1. op'[t] = "revoke" /\ pc'[t] = "lockItem"
      BY <1>0, <2>0, <2>1 DEF Take
    <3> QED BY <2>0, <3>1, RowsAssumption DEF Route, Place, At, Rows
  <2>2. LockAndCheck(t, item[t], item[t] \notin revoked, "lockItem")
    BY <1>1 DEF RevokeLocksDevice
  <2> QED BY <2>1, <2>2, OrderLock
<1>2. CASE RevokeLocksAlerts(t)
  <2>1. /\ op[t] = "revoke" /\ pc[t] = "lockItem" /\ op' = op /\ via' = via
        /\ pc' = [pc EXCEPT ![t] = "commit"]
        /\ \A x \in Rows : lock'[x] = IF x \in Naming(item[t]) THEN t ELSE lock[x]
    BY <1>2 DEF RevokeLocksAlerts, At
  <2>2. op'[t] = "revoke" /\ pc'[t] = "commit"
    BY <1>0, <2>1
  <2>3. Naming(item[t]) \subseteq Alerts
    BY DEF Naming
  <2>4. Route(t)'
    BY <2>2 DEF Route
  <2>5. \A x \in Rows : x \in Naming(item[t]) \/ Place(t, x) => Place(t, x)'
    BY <2>1, <2>2, <2>3, RowsAssumption DEF Place, At, Rows
  <2> QED BY <2>1, <2>4, <2>5, OrderGo
<1>3. CASE CountContacts(t) /\ ~Refuse(t)
  <2>1. op[t] = "addContact" /\ pc[t] = "look" /\ GoTo(t, "insert")
    BY <1>3 DEF CountContacts, At
  <2>2. op'[t] = "addContact" /\ pc'[t] = "insert"
    BY <1>0, <2>1 DEF GoTo
  <2>3. Route(t)' /\ \A x \in Rows : Place(t, x) => Place(t, x)'
    BY <2>1, <2>2 DEF Route, Place, At
  <2> QED BY <2>1, <2>3, OrderGoTo
<1>4. CASE (InsertContact(t) \/ UpdateContact(t)) /\ ~Fail(t)
  <2>1. /\ op[t] \in {"addContact", "changeContact"} /\ pc[t] = "insert"
        /\ GoTo(t, "commit")
    BY <1>4 DEF InsertContact, UpdateContact, At
  <2>2. op'[t] = op[t] /\ pc'[t] = "commit"
    BY <1>0, <2>1 DEF GoTo
  <2>3. Route(t)' /\ \A x \in Rows : Place(t, x) => Place(t, x)'
    BY <2>1, <2>2 DEF Route, Place, At
  <2> QED BY <2>1, <2>3, OrderGoTo
<1>5. CASE ChangeLocks(t)
  <2>0. op[t] = "changeContact" /\ pc[t] = "lockItem" /\ item[t] \in Contacts
    BY <1>5 DEF ChangeLocks, At, Asks
  <2>1. ASSUME NEW step \in {"insert", "archive"}, Take(t, item[t], step)
        PROVE  Route(t)' /\ \A y \in Rows : y = item[t] \/ Place(t, y) => Place(t, y)'
    <3>1. op'[t] = "changeContact" /\ pc'[t] = step
      BY <1>0, <2>0, <2>1 DEF Take
    <3> QED BY <2>0, <3>1, RowsAssumption DEF Route, Place, At, Rows
  <2>2. PICK step \in {"insert", "archive"} :
          LockAndCheck(t, item[t], item[t] \in Live, step)
    BY <1>5 DEF ChangeLocks
  <2> QED BY <2>1, <2>2, OrderLock
<1>6. CASE Refuse(t) \/ Fail(t)
  BY <1>6, OrderEnd DEF Refuse, Fail
<1> QED BY <1>1, <1>2, <1>3, <1>4, <1>5, <1>6

LEMMA OrderKept ==
  ASSUME SosInv, OrderInv, [Next]_vars
  PROVE  OrderInv'
<1>0. TxnTypes /\ Raised \subseteq Alerts /\ \A t \in Txns : Asks(t)
  BY Parts DEF Requests, Raised
<1>1. ASSUME NEW t \in Txns, Step(t) PROVE OrderInv'
  <2>1. CASE \/ FireLocksSlot(t) \/ FireLocksDevice(t) \/ FireLooks(t) \/ InsertAlert(t)
    BY <1>0, <2>1, OrderPress
  <2>2. CASE \/ AcknowledgeLocks(t) \/ EscalateLocks(t) \/ ReadLadder(t)
             \/ ResolveLocksDevice(t) \/ ResolveLocks(t)
    BY <1>0, <2>2, OrderIncident
  <2>3. CASE \/ RevokeLocksDevice(t) \/ RevokeLocksAlerts(t)
             \/ CountContacts(t) \/ InsertContact(t) \/ ChangeLocks(t) \/ UpdateContact(t)
    BY <1>0, <2>3, OrderRest
  <2>4. CASE \/ CommitFire(t) \/ CommitAcknowledge(t) \/ CommitEscalate(t)
             \/ CommitResolve(t) \/ CommitRevoke(t) \/ CommitContact(t)
             \/ ChangeContact(t) \/ ArchiveContact(t)
    <3>1. End(t)
      BY <2>4 DEF CommitFire, CommitAcknowledge, CommitEscalate, CommitResolve, CommitRevoke,
                  CommitContact, ChangeContact, ArchiveContact, Refuse, Fail
    <3> QED BY <1>0, <3>1, OrderEnd
  <2> QED BY <1>1, <2>1, <2>2, <2>3, <2>4 DEF Step
<1>2. ASSUME NEW t \in Txns, BeginSome(t) PROVE OrderInv'
  BY <1>0, <1>2, OrderStart
<1>3. ASSUME NEW t \in Txns, ConnectionLost(t) PROVE OrderInv'
  BY <1>0, <1>3, OrderEnd DEF ConnectionLost, Refuse
<1>4. CASE UNCHANGED vars
  BY <1>4 DEF vars, txns, OrderInv, Route, Place, At
<1> QED BY <1>1, <1>2, <1>3, <1>4 DEF Next

\* What a transaction holds says how far it is.
THEOREM OrderInvariant == Spec => []OrderInv
<1>1. Init => OrderInv
  BY RowsAssumption DEF Init, OrderInv, Route
<1>2. SosInv /\ OrderInv /\ [Next]_vars => OrderInv'
  BY OrderKept
<1> QED BY <1>1, <1>2, SosInvariant, PTL DEF Spec

\* How far a transaction is.
Stage(t) ==
  IF pc[t] = "lockSlot" THEN 0
  ELSE IF pc[t] = "lockDevice" THEN 1
  ELSE IF pc[t] = "lockItem" /\ op[t] # "changeContact" THEN 2
  ELSE IF pc[t] = "lockItem" \/ At(t, "escalate", "commit") THEN 3
  ELSE IF \/ op[t] \in {"fire", "addContact", "changeContact"} /\ pc[t] = "commit"
          \/ pc[t] = "archive"
       THEN 5
  ELSE 4

\* It waits only for transactions that are further.
LEMMA WaitsForFurther ==
  ASSUME SosInv, OrderInv, NEW t \in Txns, NEW u \in WaitsFor(t)
  PROVE  u \in Txns /\ pc[u] # "idle" /\ Stage(u) > Stage(t)
<1>0. /\ u \in Txns /\ TxnTypes /\ Asks(t) /\ Route(t) /\ Raised \subseteq Alerts
      /\ \A x \in Rows : lock[x] = u => Place(u, x)
  BY Parts DEF Requests, OrderInv, WaitsFor, Raised
<1>1. CASE u \in Meets(t)
  <2>1. \/ op[u] \in {"fire", "addContact", "changeContact"} /\ pc[u] = "commit"
        \/ pc[u] = "archive"
    BY <1>1 DEF Meets, PressingFor, Pressing, Writing, Numbering, At
  <2>2. pc[t] = "insert" \/ At(t, "revoke", "commit")
    BY <1>1 DEF Meets, At
  <2>3. Stage(u) = 5 /\ pc[u] # "idle"
    BY <2>1 DEF Stage, At
  <2>4. Stage(t) = 4
    BY <2>2 DEF Stage, At
  <2> QED BY <1>0, <2>3, <2>4
<1>2. CASE \E x \in Wanted(t) : lock[x] = u
  <2>1. PICK x \in Wanted(t) : lock[x] = u
    BY <1>2
  <2>2. x \in Rows /\ Place(u, x)
    BY <1>0, <2>1 DEF Wanted
  <2>3. CASE pc[t] = "lockSlot"
    <3>1. x \in Presses
      BY <1>0, <2>1, <2>3 DEF Wanted, Route, Asks, At
    <3> QED BY <1>0, <2>2, <2>3, <3>1 DEF Place, Stage, At
  <2>4. CASE pc[t] = "lockDevice"
    <3>1. x \in Devices
      <4>1. x = IF op[t] = "revoke" THEN item[t] ELSE via[t]
        BY <2>1, <2>4 DEF Wanted, At
      <4>2. via[t] \in Devices \cup {None}
        BY <1>0 DEF TxnTypes
      <4> QED BY <1>0, <2>2, <4>1, <4>2, RowsAssumption DEF Asks, Rows
    <3> QED BY <1>0, <2>2, <2>4, <3>1 DEF Place, Stage, At
  <2>5. CASE pc[t] = "lockItem" /\ op[t] = "changeContact"
    <3>1. x \in Contacts
      BY <1>0, <2>1, <2>5 DEF Wanted, Asks, At
    <3> QED BY <1>0, <2>2, <2>5, <3>1 DEF Place, Stage, At
  <2>6. CASE pc[t] = "lockItem" /\ op[t] # "changeContact"
    <3>1. x \in Alerts
      BY <1>0, <2>1, <2>6 DEF Wanted, Route, Asks, At, Naming
    <3> QED BY <1>0, <2>2, <2>6, <3>1 DEF Place, Stage, At
  <2>7. CASE At(t, "escalate", "commit")
    <3>1. x \in Contacts
      BY <1>0, <2>1, <2>7 DEF Wanted, At, TxnTypes
    <3> QED BY <1>0, <2>2, <2>7, <3>1 DEF Place, Stage, At
  <2> QED BY <2>1, <2>3, <2>4, <2>5, <2>6, <2>7 DEF Wanted
<1> QED BY <1>1, <1>2 DEF WaitsFor

\* Every guard by which a statement waits is met once the transaction waits for nobody.
ClearWay(t) ==
  /\ pc[t] = "lockSlot" => Free(t, item[t])
  /\ pc[t] = "lockDevice" => Free(t, IF op[t] = "revoke" THEN item[t] ELSE via[t])
  /\ pc[t] = "lockItem" /\ op[t] # "revoke" => Free(t, item[t])
  /\ At(t, "revoke", "lockItem") => \A a \in Naming(item[t]) : Free(t, a)
  /\ At(t, "escalate", "commit") => \A c \in chosen[t] : Free(t, c)
  /\ At(t, "fire", "insert") => PressingFor(About[item[t]]) = {}
  /\ At(t, "revoke", "commit") => \A u \in Pressing : Fix[item[u]] # item[t]
  /\ At(t, "addContact", "insert") => Writing(arg[t]) = {}
  /\ At(t, "changeContact", "insert") /\ arg[t] # None => Writing(arg[t]) = {}

\* Waiting for nobody is being able to go on: the locks and constraints the next statement
\* meets are free (the SELECT ... FOR UPDATE, the unique indexes and the foreign keys).
THEOREM WaitingIsForSomebody ==
  Spec => [](\A t \in Txns : WaitsFor(t) = {} => ClearWay(t))
<1>1. ASSUME SosInv, OrderInv
      PROVE  \A t \in Txns : WaitsFor(t) = {} => ClearWay(t)
  <2> SUFFICES ASSUME NEW t \in Txns, WaitsFor(t) = {} PROVE ClearWay(t)
    OBVIOUS
  <2>0. TxnTypes /\ Asks(t) /\ Route(t) /\ Raised \subseteq Alerts
    BY <1>1, Parts DEF Requests, OrderInv, Raised
  <2>1. \A x \in Wanted(t) : Free(t, x)
    <3> SUFFICES ASSUME NEW x \in Wanted(t), lock[x] \notin {None, t} PROVE FALSE
      BY DEF Free
    <3>1. x \in Rows /\ lock[x] \in Txns \ {t}
      BY <2>0 DEF Wanted, TxnTypes
    <3> QED BY <3>1 DEF WaitsFor
  <2>2. Meets(t) = {}
    <3>1. t \notin Meets(t)
      BY DEF Meets, PressingFor, Pressing, Writing, Numbering, At
    <3> QED BY <3>1 DEF WaitsFor, Meets
  <2>3. pc[t] = "lockSlot" => item[t] \in Wanted(t)
    BY <2>0 DEF Route, Asks, Wanted, Rows
  <2>4. pc[t] = "lockDevice" =>
          (IF op[t] = "revoke" THEN item[t] ELSE via[t]) \in Wanted(t)
    BY <2>0 DEF Route, Asks, Wanted, Rows
  <2>5. pc[t] = "lockItem" /\ op[t] # "revoke" => item[t] \in Wanted(t)
    BY <2>0 DEF Route, Asks, Wanted, Rows
  <2>6. At(t, "revoke", "lockItem") => Naming(item[t]) \subseteq Wanted(t)
    BY <2>0 DEF At, Wanted, Rows, Naming
  <2>7. At(t, "escalate", "commit") => chosen[t] \subseteq Wanted(t)
    BY <2>0 DEF TxnTypes, Wanted, Rows
  <2>8. /\ At(t, "fire", "insert") => PressingFor(About[item[t]]) = {}
        /\ At(t, "revoke", "commit") => \A u \in Pressing : Fix[item[u]] # item[t]
        /\ At(t, "addContact", "insert") => Writing(arg[t]) = {}
        /\ At(t, "changeContact", "insert") /\ arg[t] # None => Writing(arg[t]) = {}
    BY <2>2 DEF Meets, PressingFor, Pressing, Writing
  <2>9. /\ pc[t] = "lockSlot" => Free(t, item[t])
        /\ pc[t] = "lockDevice" => Free(t, IF op[t] = "revoke" THEN item[t] ELSE via[t])
        /\ pc[t] = "lockItem" /\ op[t] # "revoke" => Free(t, item[t])
    BY <2>1, <2>3, <2>4, <2>5
  <2>10. /\ At(t, "revoke", "lockItem") => \A a \in Naming(item[t]) : Free(t, a)
         /\ At(t, "escalate", "commit") => \A c \in chosen[t] : Free(t, c)
    BY <2>1, <2>6, <2>7
  <2> QED BY <2>8, <2>9, <2>10 DEF ClearWay
<1> QED BY <1>1, SosInvariant, OrderInvariant, PTL

\* No requests wait for each other in a circle: of those under way, one that is furthest
\* waits for none of the others.
THEOREM NobodyWaitsInACircle == Spec => []NoCircleOfWaits
<1>1. ASSUME SosInv, OrderInv PROVE NoCircleOfWaits
  <2> SUFFICES ASSUME NEW ring \in SUBSET Txns, NEW first \in ring, pc[first] # "idle",
                      \A t \in ring : pc[t] # "idle" => WaitsFor(t) \cap ring # {}
               PROVE  FALSE
    BY DEF NoCircleOfWaits
  <2>1. \A t \in ring : pc[t] # "idle" =>
          \E u \in ring : pc[u] # "idle" /\ Stage(u) > Stage(t)
    BY <1>1, WaitsForFurther
  <2>2. \A t \in ring : Stage(t) \in 0..5
    BY DEF Stage
  <2>3. \A t \in ring : pc[t] # "idle" => Stage(t) # 5
    BY <2>1, <2>2
  <2>4. \A t \in ring : pc[t] # "idle" => Stage(t) # 4
    BY <2>1, <2>2, <2>3
  <2>5. \A t \in ring : pc[t] # "idle" => Stage(t) # 3
    BY <2>1, <2>2, <2>3, <2>4
  <2>6. \A t \in ring : pc[t] # "idle" => Stage(t) # 2
    BY <2>1, <2>2, <2>3, <2>4, <2>5
  <2>7. \A t \in ring : pc[t] # "idle" => Stage(t) # 1
    BY <2>1, <2>2, <2>3, <2>4, <2>5, <2>6
  <2>8. \A t \in ring : pc[t] # "idle" => Stage(t) # 0
    BY <2>1, <2>2, <2>3, <2>4, <2>5, <2>6, <2>7
  <2> QED BY <2>2, <2>3, <2>4, <2>5, <2>6, <2>7, <2>8
<1> QED BY <1>1, SosInvariant, OrderInvariant, PTL
=============================================================================
