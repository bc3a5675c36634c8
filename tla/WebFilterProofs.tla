--------------------------- MODULE WebFilterProofs ---------------------------
(***************************************************************************)
(* For any number of hosts, screens, devices and transactions: one         *)
(* question waits about a host, a save that states a version overwrites    *)
(* what its screen read, and no report of tampering is hidden.  Each       *)
(* follows from what a transaction holds between its read and its write:   *)
(* the advisory lock of a host, the row of the policy, and a place in the  *)
(* order of reports that nobody else has.                                  *)
(***************************************************************************)
EXTENDS WebFilter, TLAPS

Policies == [version : Nat, allow : SUBSET Hosts, block : SUBSET Hosts]
Shows == [of : Policies, version : Nat, answer : {"none", "read", "stale", "saved"}]
DoorRows == [status : {"none", "pending", "approved", "denied"}, host : Hosts \cup {"none"},
             asked : Int, granted : Int, expires : Int]
Reports == [says : {"nothing", "healthy", "tampered", "unsupported"}, order : Nat, at : Nat, observed : Nat]
Visits == [step : {"away", "save", "ask", "decide", "report"},
           on : Screens \cup Devices \cup DoorIds \cup {0}, states : BOOLEAN, at : Nat,
           policy : Policies, door : DoorRows, report : Reports]

WebTypes ==
  /\ minute \in Nat
  /\ filter \in Policies
  /\ shown \in [Screens -> Shows]
  /\ door \in [DoorIds -> DoorRows]
  /\ spoken \in [Devices -> SUBSET Reports]
  /\ visit \in [Txns -> Visits]

\* No two transactions hold one row.
HeldAlone == \A g \in hold, h \in hold : g[1] = h[1] => g[2] = h[2]

\* Who is about to ask holds the lock of the host, about which nothing waits.
Asking ==
  \A t \in Txns : In(t, "ask") =>
    /\ <<<<"question", visit[t].door.host>>, t>> \in hold
    /\ Waiting(visit[t].door.host) = {}

\* A screen knows no version that was not stored, and of one version one policy.
ScreensKnow ==
  \A s \in Screens :
    /\ shown[s].of.version <= filter.version
    /\ shown[s].of.version = filter.version => shown[s].of = filter
    /\ shown[s].answer = "read" =>
         /\ shown[s].version > 0
         /\ shown[s].of.version > 0 => shown[s].version = shown[s].of.version
         /\ shown[s].of.version = 0 => shown[s].version = 1

\* Who is about to save over a stated version holds the row, which is as the screen read it.
Saving ==
  \A t \in Txns : In(t, "save") =>
    /\ visit[t].on \in Screens
    /\ visit[t].states =>
         /\ filter.version > 0 /\ <<FilterRow, t>> \in hold
         /\ Foreseen(filter, shown[visit[t].on].of)

\* Reports of a device, made and under way, have places of their own, and one is the last.
Reporting ==
  /\ \A t \in Txns : In(t, "report") =>
       /\ \A r \in spoken[visit[t].on] : r.order # visit[t].report.order
       /\ \A u \in Txns \ {t} : In(u, "report") /\ visit[u].on = visit[t].on =>
            visit[u].report.order # visit[t].report.order
  /\ \A d \in Devices :
       /\ \A q \in spoken[d], r \in spoken[d] : q.order = r.order => q = r
       /\ spoken[d] # {} => \E r \in spoken[d] : \A q \in spoken[d] : q.order <= r.order

WebInv == WebTypes /\ HeldAlone /\ Asking /\ ScreensKnow /\ Saving /\ Reporting

-----------------------------------------------------------------------------
(* The laws.                                                               *)

\* A door that is open lets one more host through, and takes nothing away: what was let through
\* without it still is (evaluateWebRequest, activeTempAllowHosts).
THEOREM DoorsOnlyOpen ==
  ASSUME NEW host \in Hosts, NEW block, NEW open, NEW more, NEW allow, NEW word, NEW category,
         DenySource(host, block, open, allow, word, category) = "none"
  PROVE  DenySource(host, block, open \cup more, allow, word, category) = "none"
BY DEF DenySource, Listed

\* A door that is open closes by itself: once its time is over it never counts again, whatever
\* the clock does after (tempAllowState).
THEOREM DoorsClose ==
  ASSUME NEW d, d.expires \in Int, NEW now \in Int, d.status = "approved", DoorState(d, now) # "active",
         NEW later \in Int, now <= later
  PROVE  DoorState(d, later) = "expired"
BY DEF DoorState

-----------------------------------------------------------------------------
(* What a step leaves alone.                                               *)

LEMMA VisitFields ==
  ASSUME NEW v \in Visits
  PROVE  /\ \A step \in {"away", "save", "ask", "decide", "report"} : [v EXCEPT !.step = step] \in Visits
         /\ \A on \in Screens \cup Devices \cup DoorIds \cup {0} : [v EXCEPT !.on = on] \in Visits
         /\ \A states \in BOOLEAN : [v EXCEPT !.states = states] \in Visits
         /\ \A at \in Nat : [v EXCEPT !.at = at] \in Visits
         /\ \A policy \in Policies : [v EXCEPT !.policy = policy] \in Visits
         /\ \A d \in DoorRows : [v EXCEPT !.door = d] \in Visits
         /\ \A report \in Reports : [v EXCEPT !.report = report] \in Visits
BY DEF Visits

LEMMA AwayTypes == Away \in Visits /\ Away.step = "away" /\ NoDoor \in DoorRows /\ Silence \in Reports
                   /\ Away.policy \in Policies /\ Away.policy.version = 0 /\ Silence.order = 0
<1>1. NoDoor \in DoorRows /\ Silence \in Reports /\ Silence.order = 0
  BY DEF NoDoor, DoorRows, Silence, Reports
<1>2. [version |-> 0, allow |-> {}, block |-> {}] \in Policies
  BY DEF Policies
<1> HIDE DEF NoDoor, Silence
<1>3. /\ Away.policy = [version |-> 0, allow |-> {}, block |-> {}] /\ Away.step = "away"
  BY DEF Away
<1>4. Away \in Visits
  BY <1>1, <1>2 DEF Away, Visits
<1> QED BY <1>1, <1>2, <1>3, <1>4

\* A transaction that takes rows.
LEMMA WebTakes ==
  ASSUME HeldAlone, NEW t \in Txns, NEW rows, \A row \in rows : Obtainable(t, row), Takes(t, rows)
  PROVE  /\ HeldAlone' /\ \A row \in rows : <<row, t>> \in hold'
         /\ \A row, u : <<row, u>> \in hold => <<row, u>> \in hold'
BY DEF HeldAlone, Takes, Obtainable

\* A transaction that ends.
LEMMA WebLeaves ==
  ASSUME WebTypes, HeldAlone, NEW t \in Txns, Leaves(t)
  PROVE  /\ HeldAlone' /\ visit' \in [Txns -> Visits] /\ visit'[t] = Away
         /\ \A u \in Txns \ {t} : visit'[u] = visit[u]
         /\ \A row, u : u # t /\ <<row, u>> \in hold => <<row, u>> \in hold'
BY AwayTypes DEF HeldAlone, Leaves, Releases, WebTypes

\* A transaction that goes on.
LEMMA WebGoesOn ==
  ASSUME WebTypes, NEW t \in Txns, NEW v \in Visits, visit' = [visit EXCEPT ![t] = v]
  PROVE  /\ visit' \in [Txns -> Visits] /\ visit'[t] = v
         /\ \A u \in Txns \ {t} : visit'[u] = visit[u]
BY DEF WebTypes

LEMMA AskingOn ==
  ASSUME Asking, NEW u \in Txns, visit'[u] = visit[u],
         \A row : <<row, u>> \in hold => <<row, u>> \in hold',
         \A host : <<<<"question", host>>, u>> \in hold => Waiting(host)' \subseteq Waiting(host)
  PROVE  In(u, "ask")' => /\ <<<<"question", visit[u].door.host>>, u>> \in hold'
                          /\ Waiting(visit[u].door.host)' = {}
<1> SUFFICES ASSUME In(u, "ask")'
             PROVE  /\ <<<<"question", visit[u].door.host>>, u>> \in hold'
                    /\ Waiting(visit[u].door.host)' = {}
  OBVIOUS
<1> DEFINE host == visit[u].door.host
<1>1. <<<<"question", host>>, u>> \in hold /\ Waiting(host) = {}
  BY DEF Asking, In
<1>2. visit'[u].door.host = host
  OBVIOUS
<1> QED BY <1>1, <1>2

LEMMA SavingOn ==
  ASSUME Saving, NEW u \in Txns, visit'[u] = visit[u],
         \A row : <<row, u>> \in hold => <<row, u>> \in hold',
         <<FilterRow, u>> \in hold => filter' = filter,
         \A s \in Screens : shown'[s].of = shown[s].of \/ shown'[s].of = filter'
  PROVE  In(u, "save")' =>
           /\ visit'[u].on \in Screens
           /\ visit'[u].states =>
                /\ filter'.version > 0 /\ <<FilterRow, u>> \in hold'
                /\ Foreseen(filter', shown'[visit'[u].on].of)
BY DEF Saving, In, FilterRow, Foreseen

LEMMA ReportingOn ==
  ASSUME Reporting, UNCHANGED spoken,
         \A u \in Txns : In(u, "report")' => visit'[u] = visit[u]
  PROVE  Reporting'
BY DEF Reporting, In

\* The steps of no transaction.
LEMMA TimeAndScreensKeep ==
  ASSUME WebInv,
         \/ ClockTicks /\ UNCHANGED <<webRows, visit>>
         \/ \E s \in Screens : ScreenReads(s) \/ SaveRefused(s)
         \/ UNCHANGED webVars
  PROVE  WebInv'
<1> USE DEF WebInv
<1>1. /\ UNCHANGED <<hold, filter, door, spoken, visit>> /\ minute' \in Nat
  <2>1. CASE ClockTicks /\ UNCHANGED <<webRows, visit>>
    BY <2>1 DEF ClockTicks, webRows, WebTypes
  <2>2. CASE \E s \in Screens : ScreenReads(s) \/ SaveRefused(s)
    BY <2>2 DEF ScreenReads, PolicyView, SaveRefused, WebTypes
  <2> QED BY <2>1, <2>2 DEF webRows, webVars, WebTypes
<1>2. /\ shown' \in [Screens -> Shows]
      /\ \A s \in Screens : \/ /\ shown'[s].of = shown[s].of
                               /\ shown'[s].version = shown[s].version
                               /\ shown'[s].answer = "read" => shown[s].answer = "read"
                            \/ /\ shown'[s].of = filter /\ shown'[s].version > 0
                               /\ filter.version > 0 => shown'[s].version = filter.version
                               /\ filter.version = 0 => shown'[s].version = 1
  <2>1. CASE UNCHANGED shown
    BY <2>1 DEF WebTypes
  <2>2. ASSUME NEW s \in Screens, ScreenReads(s)
        PROVE  <1>2!1 /\ <1>2!2
    <3> DEFINE new == [of |-> filter, answer |-> "read",
                       version |-> IF filter.version = 0 THEN 1 ELSE filter.version]
    <3>1. shown' = [shown EXCEPT ![s] = new]
      BY <2>2 DEF ScreenReads, PolicyView
    <3>2. filter.version \in Nat
      BY DEF WebTypes, Policies
    <3>3. /\ new \in Shows /\ new.of = filter /\ new.version > 0
          /\ filter.version > 0 => new.version = filter.version
          /\ filter.version = 0 => new.version = 1
      BY <3>2 DEF Shows, WebTypes
    <3> HIDE DEF new
    <3> QED BY <3>1, <3>3 DEF WebTypes
  <2>3. ASSUME NEW s \in Screens, SaveRefused(s)
        PROVE  <1>2!1 /\ <1>2!2
    <3>1. shown' = [shown EXCEPT ![s].answer = "stale"]
      BY <2>3 DEF SaveRefused
    <3>2. \A v \in Shows : [v EXCEPT !.answer = "stale"] \in Shows
      BY DEF Shows
    <3> QED BY <3>1, <3>2 DEF WebTypes, Shows
  <2> QED BY <2>1, <2>2, <2>3 DEF webRows, webVars
<1>3. WebTypes' /\ HeldAlone'
  BY <1>1, <1>2 DEF WebTypes, HeldAlone
<1>4. Asking'
  BY <1>1 DEF Asking, In, Waiting
<1>5. ScreensKnow'
  <2>1. filter.version \in Nat
    BY DEF WebTypes, Policies
  <2>2. ASSUME NEW s \in Screens
        PROVE  /\ shown'[s].of.version <= filter.version
               /\ shown'[s].of.version = filter.version => shown'[s].of = filter
               /\ shown'[s].answer = "read" =>
                    /\ shown'[s].version > 0
                    /\ shown'[s].of.version > 0 => shown'[s].version = shown'[s].of.version
                    /\ shown'[s].of.version = 0 => shown'[s].version = 1
    <3>1. CASE /\ shown'[s].of = shown[s].of /\ shown'[s].version = shown[s].version
               /\ shown'[s].answer = "read" => shown[s].answer = "read"
      BY <3>1 DEF ScreensKnow
    <3>2. CASE /\ shown'[s].of = filter /\ shown'[s].version > 0
               /\ filter.version > 0 => shown'[s].version = filter.version
               /\ filter.version = 0 => shown'[s].version = 1
      BY <3>2, <2>1
    <3> QED BY <3>1, <3>2, <1>2, Zenon
  <2> QED BY <1>1, <2>2 DEF ScreensKnow
<1>6. Saving'
  <2>0. \A s \in Screens : shown'[s].of = shown[s].of \/ shown'[s].of = filter'
    BY <1>1, <1>2
  <2>1. ASSUME NEW u \in Txns
        PROVE  In(u, "save")' =>
                 /\ visit'[u].on \in Screens
                 /\ visit'[u].states =>
                      /\ filter'.version > 0 /\ <<FilterRow, u>> \in hold'
                      /\ Foreseen(filter', shown'[visit'[u].on].of)
    <3>1. /\ Saving /\ visit'[u] = visit[u] /\ filter' = filter
          /\ \A row : <<row, u>> \in hold => <<row, u>> \in hold'
      BY <1>1
    <3> QED BY <3>1, <2>0, SavingOn
  <2> QED BY <2>1 DEF Saving, In, FilterRow
<1>7. Reporting'
  BY <1>1, ReportingOn
<1> QED BY <1>3, <1>4, <1>5, <1>6, <1>7

\* What the others know when one transaction moves, and what it knows itself.
LEMMA OneMoves ==
  ASSUME Asking, Saving, NEW t \in Txns,
         \A u \in Txns \ {t} : visit'[u] = visit[u],
         \A row, u : u # t /\ <<row, u>> \in hold => <<row, u>> \in hold',
         \A u \in Txns \ {t} : \A host : <<<<"question", host>>, u>> \in hold => Waiting(host)' \subseteq Waiting(host),
         \A u \in Txns \ {t} : <<FilterRow, u>> \in hold => filter' = filter,
         \A s \in Screens : shown'[s].of = shown[s].of,
         In(t, "ask")' => /\ <<<<"question", visit'[t].door.host>>, t>> \in hold'
                          /\ Waiting(visit[t].door.host)' = {},
         In(t, "save")' =>
           /\ visit'[t].on \in Screens
           /\ visit'[t].states =>
                /\ filter'.version > 0 /\ <<FilterRow, t>> \in hold'
                /\ Foreseen(filter', shown'[visit'[t].on].of)
  PROVE  Asking' /\ Saving'
<1>1. ASSUME NEW u \in Txns, u # t, In(u, "ask")'
      PROVE  /\ <<<<"question", visit'[u].door.host>>, u>> \in hold'
             /\ Waiting(visit[u].door.host)' = {}
  <2>1. visit'[u] = visit[u] /\ \A row : <<row, u>> \in hold => <<row, u>> \in hold'
    BY <1>1
  <2>2. \A host : <<<<"question", host>>, u>> \in hold => Waiting(host)' \subseteq Waiting(host)
    BY <1>1
  <2> QED BY <1>1, <2>1, <2>2, AskingOn
<1>2. ASSUME NEW u \in Txns, u # t
      PROVE  In(u, "save")' =>
               /\ visit'[u].on \in Screens
               /\ visit'[u].states =>
                    /\ filter'.version > 0 /\ <<FilterRow, u>> \in hold'
                    /\ Foreseen(filter', shown'[visit'[u].on].of)
  <2>1. visit'[u] = visit[u] /\ \A row : <<row, u>> \in hold => <<row, u>> \in hold'
    BY <1>2
  <2>2. /\ <<FilterRow, u>> \in hold => filter' = filter
        /\ \A s \in Screens : shown'[s].of = shown[s].of \/ shown'[s].of = filter'
    BY <1>2
  <2> QED BY <2>1, <2>2, SavingOn
<1>3. Asking'
  BY <1>1 DEF Asking, In
<1>4. Saving'
  BY <1>2 DEF Saving, In, FilterRow
<1> QED BY <1>3, <1>4

\* A transaction takes rows and goes on to write of the policy or of a door.
LEMMA OneGoesOn ==
  ASSUME WebInv, NEW t \in Txns, NEW rows, \A row \in rows : Obtainable(t, row), Takes(t, rows),
         NEW v \in Visits, v.step # "report", visit' = [visit EXCEPT ![t] = v], UNCHANGED <<minute, webRows>>,
         v.step = "ask" => /\ <<<<"question", v.door.host>>, t>> \in hold'
                           /\ Waiting(v.door.host) = {},
         v.step = "save" =>
           /\ v.on \in Screens
           /\ v.states => /\ filter.version > 0 /\ <<FilterRow, t>> \in hold'
                          /\ Foreseen(filter, shown[v.on].of)
  PROVE  WebInv'
<1> USE DEF WebInv
<1>1. /\ HeldAlone' /\ \A row, u : <<row, u>> \in hold => <<row, u>> \in hold'
  BY WebTakes
<1>2. /\ visit' \in [Txns -> Visits] /\ visit'[t] = v
      /\ \A u \in Txns \ {t} : visit'[u] = visit[u]
  BY WebGoesOn
<1>3. UNCHANGED <<minute, filter, shown, door, spoken>>
  BY DEF webRows
<1>4. \A host : Waiting(host)' = Waiting(host)
  BY <1>3 DEF Waiting
<1>5. WebTypes' /\ ScreensKnow'
  BY <1>2, <1>3 DEF WebTypes, ScreensKnow
<1>6. Reporting'
  <2>1. ASSUME NEW u \in Txns, In(u, "report")' PROVE visit'[u] = visit[u]
    BY <1>2, <2>1 DEF In
  <2> QED BY <2>1, <1>3, ReportingOn
<1>7. In(t, "ask")' => /\ <<<<"question", visit'[t].door.host>>, t>> \in hold'
                       /\ Waiting(visit[t].door.host)' = {}
  BY <1>2, <1>4 DEF In
<1>8. In(t, "save")' =>
           /\ visit'[t].on \in Screens
           /\ visit'[t].states =>
                /\ filter'.version > 0 /\ <<FilterRow, t>> \in hold'
                /\ Foreseen(filter', shown'[visit'[t].on].of)
  BY <1>2, <1>3 DEF In
<1>9. Asking' /\ Saving'
  BY <1>1, <1>2, <1>3, <1>4, <1>7, <1>8, OneMoves
<1> QED BY <1>1, <1>5, <1>6, <1>9

\* A transaction ends, and what it wrote concerns nobody who knows something.
LEMMA OneLeaves ==
  ASSUME WebInv, NEW t \in Txns, Leaves(t),
         \A u \in Txns \ {t} : \A host : <<<<"question", host>>, u>> \in hold => Waiting(host)' \subseteq Waiting(host),
         \A u \in Txns \ {t} : <<FilterRow, u>> \in hold => filter' = filter,
         \A s \in Screens : shown'[s].of = shown[s].of
  PROVE  /\ HeldAlone' /\ Asking' /\ Saving' /\ visit' \in [Txns -> Visits]
         /\ UNCHANGED spoken => Reporting'
<1> USE DEF WebInv
<1>1. /\ HeldAlone' /\ visit' \in [Txns -> Visits] /\ visit'[t] = Away
      /\ \A u \in Txns \ {t} : visit'[u] = visit[u]
      /\ \A row, u : u # t /\ <<row, u>> \in hold => <<row, u>> \in hold'
  BY WebLeaves
<1>2. visit'[t].step = "away"
  BY <1>1, AwayTypes
<1>3. ~In(t, "ask")' /\ ~In(t, "save")' /\ ~In(t, "report")'
  BY <1>2 DEF In
<1>4. Asking' /\ Saving'
  BY <1>1, <1>3, OneMoves
<1>5. ASSUME NEW u \in Txns, In(u, "report")' PROVE visit'[u] = visit[u]
  BY <1>1, <1>3, <1>5
<1>6. UNCHANGED spoken => Reporting'
  BY <1>5, ReportingOn
<1> QED BY <1>1, <1>4, <1>6

-----------------------------------------------------------------------------
(* The steps of a transaction.                                             *)

LEMMA WebRollbackKeeps ==
  ASSUME WebInv, NEW t \in Txns, WebRollback(t)
  PROVE  WebInv'
<1>1. Leaves(t) /\ UNCHANGED <<minute, filter, shown, door, spoken>>
  BY DEF WebRollback, webRows
<1>2. \A host : Waiting(host)' = Waiting(host)
  BY <1>1 DEF Waiting
<1>3. HeldAlone' /\ Asking' /\ Saving' /\ visit' \in [Txns -> Visits] /\ Reporting'
  BY <1>1, <1>2, OneLeaves
<1> QED BY <1>1, <1>3 DEF WebInv, WebTypes, ScreensKnow

LEMMA SaveOpensKeeps ==
  ASSUME WebInv, NEW t \in Txns, NEW s \in Screens, NEW states \in BOOLEAN, SaveOpens(t, s, states)
  PROVE  WebInv'
<1> USE DEF WebInv
<1>1. PICK p \in Merged(filter) :
        visit' = [visit EXCEPT ![t] = [Away EXCEPT !.step = "save", !.on = s, !.states = states, !.policy = p]]
  BY DEF SaveOpens
<1> DEFINE v == [Away EXCEPT !.step = "save", !.on = s, !.states = states, !.policy = p]
           rows == IF filter.version > 0 THEN {FilterRow} ELSE {}
<1>2. p \in Policies
  BY DEF Merged, Policies, WebTypes
<1>3. v \in Visits /\ v.step = "save" /\ v.on = s /\ v.states = states
  <2> DEFINE a == [Away EXCEPT !.step = "save"]
             b == [a EXCEPT !.on = s]
             c == [b EXCEPT !.states = states]
  <2>1. a \in Visits /\ a.step = "save"
    BY AwayTypes, VisitFields DEF Visits
  <2>2. b \in Visits /\ b.step = "save" /\ b.on = s
    BY <2>1, VisitFields DEF Visits
  <2>3. c \in Visits /\ c.step = "save" /\ c.on = s /\ c.states = states
    BY <2>2, VisitFields DEF Visits
  <2>4. v = [c EXCEPT !.policy = p]
    OBVIOUS
  <2> HIDE DEF v, c
  <2> QED BY <1>2, <2>3, <2>4, VisitFields DEF Visits
<1>4. (\A row \in rows : Obtainable(t, row)) /\ Takes(t, rows) /\ UNCHANGED <<minute, webRows>>
  BY DEF SaveOpens, Takes
<1>5. states => filter.version > 0 /\ Foreseen(filter, shown[s].of)
  <2>1. /\ shown[s].answer = "read"
        /\ states => shown[s].version = filter.version
    BY DEF SaveOpens, Stale
  <2>2. shown[s].of.version \in Nat
    BY DEF WebTypes, Shows, Policies
  <2> QED BY <2>1, <2>2 DEF ScreensKnow, Foreseen
<1>6. filter.version > 0 => <<FilterRow, t>> \in hold'
  BY <1>4 DEF Takes
<1> HIDE DEF v, rows
<1>7. visit' = [visit EXCEPT ![t] = v]
  BY <1>1 DEF v
<1> QED BY <1>3, <1>4, <1>5, <1>6, <1>7, OneGoesOn

LEMMA SaveWritesKeeps ==
  ASSUME WebInv, NEW t \in Txns, SaveWrites(t)
  PROVE  WebInv'
<1> USE DEF WebInv
<1>1. /\ filter' = [visit[t].policy EXCEPT !.version = filter.version + 1]
      /\ shown' = [shown EXCEPT ![visit[t].on].answer = "saved"]
      /\ Leaves(t) /\ UNCHANGED <<minute, door, spoken>>
      /\ Obtainable(t, FilterRow) /\ In(t, "save")
  BY DEF SaveWrites
<1>2. filter.version \in Nat /\ visit[t].policy \in Policies
  BY DEF WebTypes, Policies, Visits
<1>3. filter' \in Policies /\ filter'.version = filter.version + 1
  BY <1>1, <1>2 DEF Policies
<1>4. /\ shown' \in [Screens -> Shows]
      /\ \A s \in Screens : /\ shown'[s].of = shown[s].of /\ shown'[s].version = shown[s].version
                            /\ shown'[s].answer = "read" => shown[s].answer = "read"
  <2>1. \A x \in Shows : /\ [x EXCEPT !.answer = "saved"] \in Shows
                         /\ [x EXCEPT !.answer = "saved"].answer # "read"
    BY DEF Shows
  <2> QED BY <1>1, <2>1 DEF WebTypes, Shows
<1>5. \A u \in Txns \ {t} : <<FilterRow, u>> \in hold => filter' = filter
  BY <1>1 DEF Obtainable
<1>6. \A host : Waiting(host)' = Waiting(host)
  BY <1>1 DEF Waiting
<1>7. HeldAlone' /\ Asking' /\ Saving' /\ visit' \in [Txns -> Visits] /\ Reporting'
  BY <1>1, <1>4, <1>5, <1>6, OneLeaves
<1>8. ScreensKnow'
  <2>1. ASSUME NEW s \in Screens
        PROVE  /\ shown'[s].of.version <= filter'.version
               /\ shown'[s].of.version # filter'.version
               /\ shown'[s].answer = "read" =>
                    /\ shown'[s].version > 0
                    /\ shown'[s].of.version > 0 => shown'[s].version = shown'[s].of.version
                    /\ shown'[s].of.version = 0 => shown'[s].version = 1
    <3>1. shown[s].of.version \in Nat /\ shown[s].of.version <= filter.version
      BY DEF WebTypes, Shows, Policies, ScreensKnow
    <3> QED BY <1>2, <1>3, <1>4, <3>1 DEF ScreensKnow
  <2> QED BY <2>1 DEF ScreensKnow
<1> QED BY <1>1, <1>3, <1>4, <1>7, <1>8 DEF WebTypes

LEMMA DoorLooksKeeps ==
  ASSUME WebInv, NEW t \in Txns, DoorLooks(t)
  PROVE  WebInv'
<1>1. PICK host \in Hosts, n \in 1..MaxGrant :
        /\ Obtainable(t, <<"question", host>>) /\ Waiting(host) = {}
        /\ Takes(t, {<<"question", host>>})
        /\ visit' = [visit EXCEPT ![t] = [Away EXCEPT !.step = "ask",
                       !.door = [NoDoor EXCEPT !.status = "pending", !.host = host, !.asked = n]]]
  BY DEF DoorLooks, Question
<1> DEFINE new == [NoDoor EXCEPT !.status = "pending", !.host = host, !.asked = n]
           v == [Away EXCEPT !.step = "ask", !.door = new]
<1>2. new \in DoorRows /\ new.host = host
  <2> DEFINE a == [NoDoor EXCEPT !.status = "pending"]
             b == [a EXCEPT !.host = host]
  <2>1. a \in DoorRows
    BY AwayTypes DEF DoorRows
  <2>2. b \in DoorRows /\ b.host = host
    BY <2>1 DEF DoorRows
  <2>3. new = [b EXCEPT !.asked = n] /\ n \in Int
    OBVIOUS
  <2> HIDE DEF new, b
  <2> QED BY <2>2, <2>3 DEF DoorRows
<1>3. v \in Visits /\ v.step = "ask" /\ v.door = new
  <2> HIDE DEF new
  <2> DEFINE a == [Away EXCEPT !.step = "ask"]
  <2>1. a \in Visits /\ a.step = "ask"
    BY AwayTypes, VisitFields DEF Visits
  <2>2. v = [a EXCEPT !.door = new]
    OBVIOUS
  <2> HIDE DEF v, a
  <2> QED BY <1>2, <2>1, <2>2, VisitFields DEF Visits
<1> HIDE DEF v
<1>4. visit' = [visit EXCEPT ![t] = v] /\ <<<<"question", host>>, t>> \in hold'
  BY <1>1 DEF v, Takes
<1>5. UNCHANGED <<minute, webRows>>
  BY DEF DoorLooks, Question
<1> QED BY <1>1, <1>2, <1>3, <1>4, <1>5, OneGoesOn

LEMMA DoorAskedKeeps ==
  ASSUME WebInv, NEW t \in Txns, DoorAsked(t)
  PROVE  WebInv'
<1> USE DEF WebInv
<1>1. PICK i \in DoorIds : door' = [door EXCEPT ![i] = visit[t].door]
  BY DEF DoorAsked
<1>2. /\ Leaves(t) /\ UNCHANGED <<minute, filter, shown, spoken>>
      /\ <<<<"question", visit[t].door.host>>, t>> \in hold /\ visit[t].door \in DoorRows
  BY DEF DoorAsked, Asking, WebTypes, Visits
<1>3. ASSUME NEW u \in Txns, u # t, NEW host, <<<<"question", host>>, u>> \in hold
      PROVE  Waiting(host)' \subseteq Waiting(host)
  <2>1. host # visit[t].door.host
    BY <1>2, <1>3 DEF HeldAlone
  <2> QED BY <1>1, <1>2, <2>1 DEF Waiting, WebTypes
<1>4. HeldAlone' /\ Asking' /\ Saving' /\ visit' \in [Txns -> Visits] /\ Reporting'
  BY <1>2, <1>3, OneLeaves
<1> QED BY <1>1, <1>2, <1>4 DEF WebTypes, ScreensKnow

LEMMA DoorFoundKeeps ==
  ASSUME WebInv, NEW t \in Txns, DoorFound(t)
  PROVE  WebInv'
<1>1. PICK i \in DoorIds :
        /\ Obtainable(t, <<"door", i>>) /\ Takes(t, {<<"door", i>>})
        /\ visit' = [visit EXCEPT ![t] = [Away EXCEPT !.step = "decide", !.on = i, !.at = minute]]
  BY DEF DoorFound
<1> DEFINE v == [Away EXCEPT !.step = "decide", !.on = i, !.at = minute]
<1>2. v \in Visits /\ v.step = "decide"
  <2> DEFINE a == [Away EXCEPT !.step = "decide"]
             b == [a EXCEPT !.on = i]
  <2>1. a \in Visits /\ a.step = "decide"
    BY AwayTypes, VisitFields DEF Visits
  <2>2. b \in Visits /\ b.step = "decide"
    BY <2>1, VisitFields DEF Visits
  <2>3. v = [b EXCEPT !.at = minute] /\ minute \in Nat
    BY DEF WebInv, WebTypes
  <2> HIDE DEF v, b
  <2> QED BY <2>2, <2>3, VisitFields DEF Visits
<1> HIDE DEF v
<1>3. visit' = [visit EXCEPT ![t] = v]
  BY <1>1 DEF v
<1>4. UNCHANGED <<minute, webRows>>
  BY DEF DoorFound
<1> QED BY <1>1, <1>2, <1>3, <1>4, OneGoesOn

LEMMA DoorAnsweredKeeps ==
  ASSUME WebInv, NEW t \in Txns, DoorAnswered(t)
  PROVE  WebInv'
<1> USE DEF WebInv
<1> DEFINE i == visit[t].on
<1>1. Leaves(t) /\ UNCHANGED <<minute, filter, shown, spoken>>
  BY DEF DoorAnswered
<1>2. /\ door' \in [DoorIds -> DoorRows]
      /\ \A j \in DoorIds : door'[j] = door[j] \/ door'[j].status # "pending"
  <2>1. CASE door' = [door EXCEPT ![i].status = "denied"]
    <3>1. \A d \in DoorRows : /\ [d EXCEPT !.status = "denied"] \in DoorRows
                               /\ [d EXCEPT !.status = "denied"].status = "denied"
      BY DEF DoorRows
    <3> QED BY <2>1, <3>1 DEF WebTypes
  <2>2. ASSUME NEW n \in 1..door[i].asked,
               door' = [door EXCEPT ![i].status = "approved", ![i].granted = n, ![i].expires = visit[t].at + n]
        PROVE  <1>2!1 /\ <1>2!2
    <3>1. CASE i \notin DoorIds
      BY <2>2, <3>1 DEF WebTypes
    <3>2. CASE i \in DoorIds
      <4> DEFINE a == [door[i] EXCEPT !.status = "approved"]
                 b == [a EXCEPT !.granted = n]
                 c == [b EXCEPT !.expires = visit[t].at + n]
      <4>1. n \in Int /\ visit[t].at + n \in Int /\ door[i] \in DoorRows
        BY <3>2 DEF WebTypes, Visits, DoorRows
      <4>2. a \in DoorRows /\ a.status = "approved"
        BY <4>1 DEF DoorRows
      <4>3. b \in DoorRows /\ b.status = "approved"
        BY <4>1, <4>2 DEF DoorRows
      <4>4. c \in DoorRows /\ c.status = "approved"
        BY <4>1, <4>3 DEF DoorRows
      <4>5. door' = [door EXCEPT ![i] = c]
        BY <2>2, <3>2 DEF WebTypes
      <4> HIDE DEF c
      <4> QED BY <4>4, <4>5 DEF WebTypes
    <3> QED BY <3>1, <3>2
  <2> QED BY <2>1, <2>2 DEF DoorAnswered
<1>3. \A host : Waiting(host)' \subseteq Waiting(host)
  BY <1>2 DEF Waiting
<1>4. HeldAlone' /\ Asking' /\ Saving' /\ visit' \in [Txns -> Visits] /\ Reporting'
  BY <1>1, <1>3, OneLeaves
<1> QED BY <1>1, <1>2, <1>4 DEF WebTypes, ScreensKnow

LEMMA ReportOpensKeeps ==
  ASSUME WebInv, NEW t \in Txns, NEW d \in Devices, ReportOpens(t, d)
  PROVE  WebInv'
<1> USE DEF WebInv
<1>1. PICK n \in 1..MaxReports, says \in {"healthy", "tampered", "unsupported"}, observed \in 0..1 :
        /\ n - 1 \in Orders(d) /\ \A o \in Orders(d) : o < n
        /\ visit' = [visit EXCEPT ![t] = [Away EXCEPT !.step = "report", !.on = d,
             !.report = [says |-> says, order |-> n, at |-> minute, observed |-> observed]]]
  BY DEF ReportOpens
<1> DEFINE new == [says |-> says, order |-> n, at |-> minute, observed |-> observed]
           v == [Away EXCEPT !.step = "report", !.on = d, !.report = new]
<1>2. new \in Reports /\ new.order = n /\ n \in Nat
  <2>1. n \in Nat /\ minute \in Nat /\ observed \in Nat
    BY DEF WebTypes
  <2> QED BY <2>1 DEF Reports
<1>3. v \in Visits /\ v.step = "report" /\ v.on = d /\ v.report = new
  <2> HIDE DEF new
  <2> DEFINE a == [Away EXCEPT !.step = "report"]
             b == [a EXCEPT !.on = d]
  <2>1. a \in Visits /\ a.step = "report"
    BY AwayTypes, VisitFields DEF Visits
  <2>2. b \in Visits /\ b.step = "report" /\ b.on = d
    BY <2>1, VisitFields DEF Visits
  <2>3. v = [b EXCEPT !.report = new]
    OBVIOUS
  <2> HIDE DEF v, b
  <2> QED BY <1>2, <2>2, <2>3, VisitFields DEF Visits
<1> HIDE DEF v, new
<1>4. /\ visit' \in [Txns -> Visits] /\ visit'[t] = v
      /\ \A u \in Txns \ {t} : visit'[u] = visit[u]
  BY <1>1, <1>3, WebGoesOn DEF v, new
<1>5. UNCHANGED <<minute, hold, filter, shown, door, spoken>>
  BY DEF ReportOpens, webRows
<1>6. WebTypes' /\ HeldAlone' /\ ScreensKnow'
  BY <1>4, <1>5 DEF WebTypes, HeldAlone, ScreensKnow
<1>7. Asking' /\ Saving'
  <2>1. ~In(t, "ask")' /\ ~In(t, "save")'
    BY <1>3, <1>4 DEF In
  <2>2. \A host : Waiting(host)' = Waiting(host)
    BY <1>5 DEF Waiting
  <2> QED BY <1>4, <1>5, <2>1, <2>2, OneMoves
<1>8. Reporting'
  <2>1. \A r \in spoken[d] : r.order < n
    BY <1>1 DEF Orders
  <2>2. \A u \in Txns : visit[u].on = d => visit[u].report.order < n
    BY <1>1 DEF Orders
  <2>3. ASSUME NEW u \in Txns, In(u, "report")'
        PROVE  /\ \A r \in spoken[visit'[u].on] : r.order # visit'[u].report.order
               /\ \A w \in Txns \ {u} : In(w, "report")' /\ visit'[w].on = visit'[u].on =>
                    visit'[w].report.order # visit'[u].report.order
    <3>1. CASE u = t
      <4>1. \A r \in spoken[d] : r.order # n
        BY <1>2, <2>1 DEF WebTypes, Reports
      <4>2. \A w \in Txns : visit[w].on = d => visit[w].report.order # n
        BY <1>2, <2>2 DEF WebTypes, Visits, Reports
      <4> QED BY <1>2, <1>3, <1>4, <3>1, <4>1, <4>2
    <3>2. CASE u # t
      <4>1. /\ visit'[u] = visit[u] /\ In(u, "report")
            /\ visit[u].on = d => visit[u].report.order # n
        BY <1>2, <1>4, <2>2, <2>3, <3>2 DEF In, WebTypes, Visits, Reports
      <4>2. \A w \in Txns \ {u} : w # t => visit'[w] = visit[w]
        BY <1>4
      <4> QED BY <1>2, <1>3, <1>4, <3>2, <4>1, <4>2 DEF Reporting, In
    <3> QED BY <3>1, <3>2
  <2> QED BY <1>5, <2>3 DEF Reporting, In
<1> QED BY <1>6, <1>7, <1>8

LEMMA ReportStandsKeeps ==
  ASSUME WebInv, NEW t \in Txns, NEW d \in Devices, ReportStands(t, d)
  PROVE  WebInv'
<1> USE DEF WebInv
<1> DEFINE new == visit[t].report
<1>1. /\ In(t, "report") /\ visit[t].on = d /\ Leaves(t)
      /\ spoken' = [spoken EXCEPT ![d] = @ \cup {new}]
      /\ UNCHANGED <<minute, filter, shown, door>>
  BY DEF ReportStands
<1>2. new \in Reports
  BY DEF WebTypes, Visits
<1>3. \A host : Waiting(host)' = Waiting(host)
  BY <1>1 DEF Waiting
<1>4. HeldAlone' /\ Asking' /\ Saving' /\ visit' \in [Txns -> Visits]
  BY <1>1, <1>3, OneLeaves
<1>5. visit'[t].step = "away" /\ \A u \in Txns \ {t} : visit'[u] = visit[u]
  BY <1>1, WebLeaves, AwayTypes
<1>6. /\ spoken' \in [Devices -> SUBSET Reports] /\ spoken'[d] = spoken[d] \cup {new}
      /\ \A e \in Devices : e # d => spoken'[e] = spoken[e]
      /\ \A e : e # d => spoken'[e] = spoken[e]
  BY <1>1, <1>2 DEF WebTypes
<1>7. \A r \in spoken[d] : r.order # new.order
  BY <1>1 DEF Reporting
<1>8. ASSUME NEW u \in Txns, In(u, "report")'
      PROVE  /\ \A r \in spoken'[visit'[u].on] : r.order # visit'[u].report.order
             /\ \A w \in Txns \ {u} : In(w, "report")' /\ visit'[w].on = visit'[u].on =>
                  visit'[w].report.order # visit'[u].report.order
  <2>1. u # t /\ visit'[u] = visit[u] /\ In(u, "report")
    BY <1>5, <1>8 DEF In
  <2>2. visit[u].on = d => new.order # visit[u].report.order
    BY <1>1, <2>1 DEF Reporting
  <2>3. \A r \in spoken[visit[u].on] : r.order # visit[u].report.order
    BY <2>1 DEF Reporting
  <2>4. \A r \in spoken'[visit[u].on] : r.order # visit[u].report.order
    BY <1>6, <2>2, <2>3
  <2>5. ASSUME NEW w \in Txns \ {u}, In(w, "report")', visit'[w].on = visit'[u].on
        PROVE  visit'[w].report.order # visit'[u].report.order
    BY <1>5, <2>1, <2>5 DEF In, Reporting
  <2> QED BY <2>1, <2>4, <2>5
<1>9. ASSUME NEW e \in Devices
      PROVE  /\ \A q \in spoken'[e], r \in spoken'[e] : q.order = r.order => q = r
             /\ spoken'[e] # {} => \E r \in spoken'[e] : \A q \in spoken'[e] : q.order <= r.order
  <2>1. /\ \A q \in spoken[e], r \in spoken[e] : q.order = r.order => q = r
        /\ spoken[e] # {} => \E r \in spoken[e] : \A q \in spoken[e] : q.order <= r.order
    BY DEF Reporting
  <2>2. CASE e # d
    BY <1>6, <2>1, <2>2
  <2>3. CASE e = d
    <3>1. \A q \in spoken'[d] : q.order \in Nat
      BY <1>6 DEF Reports
    <3>2. CASE spoken[d] = {}
      BY <1>6, <2>3, <3>1, <3>2
    <3>3. CASE spoken[d] # {}
      <4>1. PICK m \in spoken[d] : \A q \in spoken[d] : q.order <= m.order
        BY <2>1, <2>3, <3>3
      <4>2. m.order \in Nat /\ new.order \in Nat
        BY <1>6, <3>1, <4>1
      <4>3. \E r \in spoken'[d] : \A q \in spoken'[d] : q.order <= r.order
        <5>1. CASE new.order <= m.order
          BY <1>6, <4>1, <5>1
        <5>2. CASE m.order <= new.order
          BY <1>6, <3>1, <4>1, <4>2, <5>2
        <5> QED BY <4>2, <5>1, <5>2
      <4> QED BY <1>6, <1>7, <2>1, <2>3, <4>3
    <3> QED BY <3>2, <3>3
  <2> QED BY <2>2, <2>3
<1>10. Reporting'
  BY <1>8, <1>9 DEF Reporting, In
<1> QED BY <1>1, <1>4, <1>6, <1>10 DEF WebTypes, ScreensKnow

-----------------------------------------------------------------------------
LEMMA WebBegins == WebInit => WebInv
<1> SUFFICES ASSUME WebInit PROVE WebInv
  OBVIOUS
<1>1. WebTypes
  <2>1. [of |-> filter, version |-> 0, answer |-> "none"] \in Shows
    BY AwayTypes DEF WebInit, Shows
  <2> QED BY <2>1, AwayTypes DEF WebInit, WebTypes
<1>2. \A t \in Txns, step \in {"save", "ask", "report"} : ~In(t, step)
  BY AwayTypes DEF WebInit, In
<1>3. HeldAlone /\ Asking /\ Saving
  BY <1>2 DEF WebInit, HeldAlone, Asking, Saving
<1>4. ScreensKnow
  BY AwayTypes DEF WebInit, ScreensKnow
<1>5. Reporting
  BY <1>2 DEF WebInit, Reporting
<1> QED BY <1>1, <1>3, <1>4, <1>5 DEF WebInv

LEMMA WebSteps == WebInv /\ [WebNext]_webVars => WebInv'
<1> SUFFICES ASSUME WebInv, [WebNext]_webVars PROVE WebInv'
  OBVIOUS
<1>1. ASSUME NEW t \in Txns, WebWork(t) PROVE WebInv'
  BY <1>1, SaveOpensKeeps, SaveWritesKeeps, DoorLooksKeeps, DoorAskedKeeps, DoorFoundKeeps, DoorAnsweredKeeps,
     ReportOpensKeeps, ReportStandsKeeps, WebRollbackKeeps DEF WebWork
<1> QED BY <1>1, TimeAndScreensKeep DEF WebNext

\* What the screens, the transactions and the reports of a web filter know stands at every moment.
THEOREM WebInvariant == WebSpec => []WebInv
<1> QED BY WebBegins, WebSteps, PTL DEF WebSpec

\* Two presses about one host never meet at the unique index: lockOpenQuestion lets one question
\* about a host be looked for and inserted at a time (requestTempAllow).
THEOREM DoorsAreAskedOnce == WebSpec => []OneQuestionPerDoor
<1>1. WebInv => OneQuestionPerDoor
  BY DEF WebInv, Asking, HeldAlone, OneQuestionPerDoor
<1> QED BY <1>1, WebInvariant, PTL

\* A save that states a version overwrites what its screen read, through any number of saves and
\* screens; the one save it may lose is the first of all, where its screen was shown the default
\* (updateWebFilterPolicy, policyView of no row).
THEOREM StatedSavesLoseOnlyTheFirst == WebSpec => StatedSaveLosesOnlyTheFirst
<1>1. WebInv => \A t \in Txns : (SaveWrites(t) /\ visit[t].states) =>
                                  Foreseen(filter, shown[visit[t].on].of)
  BY DEF WebInv, SaveWrites, Saving
<1> QED BY <1>1, WebInvariant, PTL DEF WebSpec, StatedSaveLosesOnlyTheFirst

\* A handset is shown as protected by a fresh report that began after every report of tampering,
\* in whatever order the reports commit (readLatestProtectionReport, computeProtectionHealth).
THEOREM TamperingIsSeen == WebSpec => []TamperIsNotHidden
<1>1. ASSUME WebInv, NEW d \in Devices, Shield(d) = "protected"
      PROVE  \E r \in spoken[d] : /\ r.says = "healthy" /\ minute - r.at <= Freshness
                                  /\ \A q \in spoken[d] : q.says = "tampered" => q.order < r.order
  <2> DEFINE last == CHOOSE r \in spoken[d] : \A q \in spoken[d] : q.order <= r.order
  <2>1. spoken[d] # {}
    BY <1>1 DEF Shield, Latest, Health, Silence
  <2>2. last \in spoken[d] /\ \A q \in spoken[d] : q.order <= last.order
    BY <1>1, <2>1 DEF WebInv, Reporting
  <2>3. Latest(spoken[d]) = last
    BY <2>1 DEF Latest
  <2> HIDE DEF last
  <2>4. last.says = "healthy" /\ ~(minute - last.at > Freshness)
    BY <1>1, <2>3 DEF Shield, Health
  <2>5. /\ minute \in Nat /\ last.at \in Nat /\ Freshness \in Nat
        /\ \A q \in spoken[d] : q.order \in Nat
    BY <1>1, <2>2, WebAssumption DEF WebInv, WebTypes, Reports
  <2>6. ASSUME NEW q \in spoken[d], q.says = "tampered" PROVE q.order < last.order
    <3>1. q.order # last.order
      BY <1>1, <2>2, <2>4, <2>6 DEF WebInv, Reporting
    <3> QED BY <2>2, <2>5, <3>1
  <2> QED BY <2>2, <2>4, <2>5, <2>6
<1>2. WebInv => TamperIsNotHidden
  BY <1>1 DEF TamperIsNotHidden
<1> QED BY <1>2, WebInvariant, PTL
=============================================================================
